---------------------------- MODULE Spec2Model ----------------------------
(***************************************************************************)
(* Model of the hotel question-answer data quality filter                  *)
(* (src/certification_materials/src/data_quality): the rule validator,     *)
(* the response parser, the batch evaluator, the concurrent coordinator,   *)
(* the result merger and the run driver filter_data.                       *)
(*                                                                         *)
(* Python values are modelled by what the code observes of them:           *)
(*  - a JSON value is a tagged record [t, v];                              *)
(*  - a response text is a sequence of tokens ("[", "]", prose, a JSON     *)
(*    element), which is what the pattern search and the decoder look at;  *)
(*  - a question or answer text is the record of the measurements the      *)
(*    validator takes of it (length, stripped length, marker, keywords).   *)
(* A Python exception is an explicit outcome of the operator that raises.  *)
(***************************************************************************)
EXTENDS Integers, Sequences, FiniteSets, TLC

VARIABLES
    pc,                   \* position of filter_data, or of the function under test
    input_file,           \* the lines of the input file
    config,               \* ProcessingConfig
    data_entries,         \* load_data's result
    rule_results,         \* apply_rule_filtering: all_results
    passed_entries,       \* apply_rule_filtering: passed_entries
    batches,              \* apply_ai_evaluation: batches
    future,               \* per batch: the state of its future and its result
    worker,               \* per pool thread: the batch id it runs, or Idle
    collected,            \* batch ids whose future the collecting loop has consumed
    all_evaluations,      \* apply_ai_evaluation: all_evaluations
    processed_count,      \* self.processed_count
    service_log,          \* the batch ids whose prompt was sent to generate_content, in order
    high_quality_results, \* merge_results: high_quality_results
    low_quality_results,  \* merge_results: low_quality_results
    output_file,          \* the records save_results wrote, or NotWritten
    report,               \* generate_report's document, or NotWritten
    args,                 \* the arguments of the function under test
    result,               \* its return value
    collecting,           \* the future the body of the collecting loop is at, and where
    processing_lock       \* self.processing_lock: "free" or "held"

vars == <<pc, input_file, config, data_entries, rule_results, passed_entries,
          batches, future, worker, collected, all_evaluations, processed_count,
          service_log, high_quality_results, low_quality_results, output_file,
          report, args, result, collecting, processing_lock>>

-----------------------------------------------------------------------------
(* Bounds of the model *)

\* longest JSON array a response text of the parser's inputs holds
MaxItems == 2
\* largest expected count handed to parse_ai_response
MaxCount == 3
\* most members of a batch handed to evaluate_batch on its own
MaxBatch == 3
\* most records handed to merge_results on its own
MaxMerge == 2
\* most lines of the input file of a run
MaxLines == 3
\* most records handed to save_results on its own
MaxSave == 3
\* most lines of the file the entries handed to apply_ai_evaluation come from
MaxPassedFrom == 3

-----------------------------------------------------------------------------
(* Helpers *)

Min(a, b) == IF a <= b THEN a ELSE b

Range(s) == {s[i] : i \in 1..Len(s)}

SeqsUpTo(S, n) == UNION {[1..k -> S] : k \in 0..n}

RECURSIVE SelectIdx(_, _, _)
\* the positions i of s, in order, with keepAt[i]
SelectIdx(s, keepAt, i) ==
    IF i > Len(s) THEN <<>>
    ELSE (IF keepAt[i] THEN <<s[i]>> ELSE <<>>) \o SelectIdx(s, keepAt, i + 1)

-----------------------------------------------------------------------------
(* JSON values as Python sees them *)

Num(n) == [t |-> "num", v |-> n]
JTrue == [t |-> "bool", v |-> 1]
JFalse == [t |-> "bool", v |-> 0]
JNull == [t |-> "null", v |-> 0]
\* a non-empty string that is no number, such as "high" or "no"
JStr == [t |-> "str", v |-> 0]
\* the key is absent from the object
Missing == [t |-> "missing", v |-> 0]

Bool(b) == IF b THEN JTrue ELSE JFalse

\* x >= n is defined for int and bool (True is 1); it raises TypeError otherwise
Comparable(x) == x.t \in {"num", "bool"}
Ge(x, n) == x.v >= n

\* Python's truth value of x
Truthy(x) ==
    CASE x.t = "num" -> x.v # 0
      [] x.t = "bool" -> x.v = 1
      [] x.t = "str" -> TRUE
      [] OTHER -> FALSE

-----------------------------------------------------------------------------
(* Response texts and parse_ai_response *)

\* A response text is a sequence of tokens.  "[" and "]" are the bracket
\* characters outside JSON elements, "prose" is any text without brackets,
\* and "item" is the text of one JSON element: an object (obj) with its
\* score and keep members, or some other value.  rb says that the element's
\* text holds a "]" of its own, inside a string value, and reason that the
\* object carries a 'reason' member with a text of the service.
Tok(tok, obj, score, keep, rb) ==
    [tok |-> tok, obj |-> obj, score |-> score, keep |-> keep, rb |-> rb,
     reason |-> FALSE]
LB == Tok("[", FALSE, Missing, Missing, FALSE)
RB == Tok("]", FALSE, Missing, Missing, FALSE)
Prose == Tok("prose", FALSE, Missing, Missing, FALSE)
Obj(score, keep) == Tok("item", TRUE, score, keep, FALSE)
\* an object with a further member whose string value holds "]"
ObjRb(score, keep) == Tok("item", TRUE, score, keep, TRUE)
\* an object with a 'reason' member, such as {"score":8,"keep":true,"reason":"clear"}
ObjReason(score, keep) == [Tok("item", TRUE, score, keep, FALSE) EXCEPT !.reason = TRUE]
\* an element that is no object, such as 8
Scalar == Tok("item", FALSE, Missing, Missing, FALSE)

HasRb(tk) == tk.tok = "]" \/ (tk.tok = "item" /\ tk.rb)

\* re.search(r'\[.*?\]', text, re.DOTALL): the first "[" that some "]"
\* follows, up to the first "]" after it.  <<0, 0>>: no match.
SearchArray(text) ==
    LET starts == {i \in 1..Len(text) :
                      /\ text[i].tok = "["
                      /\ \E j \in (i + 1)..Len(text) : HasRb(text[j])}
    IN  IF starts = {} THEN <<0, 0>>
        ELSE LET i == CHOOSE x \in starts : \A y \in starts : x <= y
                 ends == {j \in (i + 1)..Len(text) : HasRb(text[j])}
                 j == CHOOSE x \in ends : \A y \in ends : x <= y
             IN  <<i, j>>

\* json.loads(match.group(0)): the elements of the array, or JSONDecodeError
\* when the match was cut inside an element or holds anything but elements.
JsonLoads(text, m) ==
    LET inner == SubSeq(text, m[1] + 1, m[2] - 1)
    IN  IF text[m[2]].tok = "]" /\ \A k \in 1..Len(inner) :
                                      inner[k].tok = "item" /\ ~inner[k].rb
        THEN [ok |-> TRUE, val |-> inner, err |-> "none"]
        ELSE [ok |-> FALSE, val |-> <<>>, err |-> "JSONDecodeError"]

\* The reason strings.  A reason is kept as the template it was built from
\* and the values the template embeds.
Reason(kind, batch, score, err, issues) ==
    [kind |-> kind, batch |-> batch, score |-> score, err |-> err, issues |-> issues]
\* f'AI评估(分数:{score})'
ReasonAI(score) == Reason("AI_eval", -1, score, "none", <<>>)
\* f'解析失败: {str(e)}'
ReasonParseFailed(e) == Reason("parse_failed", -1, Missing, e, <<>>)
\* f"AI评估-批次{batch_id}(分数:{evaluation['score']})"
ReasonBatch(batch_id, score) == Reason("AI_eval_batch", batch_id, score, "none", <<>>)
\* f'评估失败-批次{batch_id}: {str(e)}'
ReasonBatchFailed(batch_id, e) == Reason("eval_failed_batch", batch_id, Missing, e, <<>>)
\* '数据格式错误'
ReasonFormatError == Reason("format_error", -1, Missing, "none", <<>>)
\* f'批次{batch_id}处理失败'
ReasonBatchCrashed(batch_id) == Reason("batch_failed", batch_id, Missing, "none", <<>>)
\* '未进行AI评估'
ReasonNotEvaluated == Reason("not_evaluated", -1, Missing, "none", <<>>)
\* '数据格式错误：缺少问答内容'
ReasonMissingTurns == Reason("missing_turns", -1, Missing, "none", <<>>)
\* f'处理错误: {str(e)}'
ReasonProcessingError(e) == Reason("processing_error", -1, Missing, e, <<>>)
\* '通过规则检查'
ReasonPassed == Reason("passed_rule_check", -1, Missing, "none", <<>>)
\* the text of the 'reason' member of an element of the response
ReasonOfService == Reason("service", -1, Missing, "none", <<>>)
\* '' (an evaluation without a reason)
ReasonEmpty == Reason("empty", -1, Missing, "none", <<>>)
\* the evaluation holds no 'reason' key
ReasonAbsent == Reason("absent", -1, Missing, "none", <<>>)
\* '; '.join(issues)
ReasonIssues(issues) == Reason("issues", -1, Missing, "none", issues)

Evaluation(score, keep, reason) == [score |-> score, keep |-> keep, reason |-> reason]

\* the default evaluation of lines 84, 95-96 and 109
DefaultScore == 7

\* an element without a score given the neutral 5 of the later stages
GetScoreDefaultFive(item) == IF item.score.t = "missing" THEN Num(5) ELSE item.score

\* eval_result.get('score', 7)
GetScore(item) == IF item.score.t = "missing" THEN Num(DefaultScore) ELSE item.score

\* keep taken from the score alone, the service's flag ignored
GetKeepFromScore(item) == Bool(Ge(GetScore(item), DefaultScore))

\* eval_result.get('keep', score >= 7): Python evaluates the default first,
\* so score >= 7 is computed (and may raise) whether or not keep is there.
GetKeep(item) ==
    IF item.keep.t = "missing" THEN Bool(Ge(GetScore(item), DefaultScore)) ELSE item.keep

\* the default of get computed only when keep is absent: a score that cannot
\* be compared raises nothing when the element carries a keep
ItemErrorLazyDefault(item) ==
    IF ~item.obj THEN "AttributeError"
    ELSE IF item.keep.t = "missing" /\ ~Comparable(GetScore(item)) THEN "TypeError"
    ELSE "none"

\* the exception one loop iteration of lines 89-102 raises on this element
ItemError(item) ==
    IF ~item.obj THEN "AttributeError"
    ELSE IF ~Comparable(GetScore(item)) THEN "TypeError"
    ELSE "none"

\* a loop over the decoded elements instead of range(entry_count)
StandardizeOverDecoded(evaluations, entry_count) ==
    LET bad == {i \in 1..Len(evaluations) : ItemError(evaluations[i]) # "none"}
    IN  IF bad # {}
        THEN [ok |-> FALSE, val |-> <<>>,
              err |-> ItemError(evaluations[CHOOSE i \in bad : \A k \in bad : i <= k])]
        ELSE [ok |-> TRUE, err |-> "none",
              val |-> [i \in 1..Len(evaluations) |->
                         Evaluation(GetScore(evaluations[i]), GetKeep(evaluations[i]),
                                    ReasonAI(GetScore(evaluations[i])))]]

\* the reason of the element passed through when it carries one
StandardizeKeepingReason(evaluations, entry_count) ==
    LET used == Min(entry_count, Len(evaluations))
        bad == {i \in 1..used : ItemError(evaluations[i]) # "none"}
    IN  IF bad # {}
        THEN [ok |-> FALSE, val |-> <<>>,
              err |-> ItemError(evaluations[CHOOSE i \in bad : \A k \in bad : i <= k])]
        ELSE [ok |-> TRUE, err |-> "none",
              val |-> [i \in 1..entry_count |->
                         IF i <= Len(evaluations)
                         THEN Evaluation(GetScore(evaluations[i]), GetKeep(evaluations[i]),
                                         IF evaluations[i].reason THEN ReasonOfService
                                         ELSE ReasonAI(GetScore(evaluations[i])))
                         ELSE Evaluation(Num(DefaultScore), JTrue,
                                         ReasonAI(Num(DefaultScore)))]]

\* lines 88-104: the loop over range(entry_count)
Standardize(evaluations, entry_count) ==
    LET used == Min(entry_count, Len(evaluations))
        bad == {i \in 1..used : ItemError(evaluations[i]) # "none"}
    IN  IF bad # {}
        THEN [ok |-> FALSE, val |-> <<>>,
              err |-> ItemError(evaluations[CHOOSE i \in bad : \A k \in bad : i <= k])]
        ELSE [ok |-> TRUE, err |-> "none",
              val |-> [i \in 1..entry_count |->
                         IF i <= Len(evaluations)
                         THEN Evaluation(GetScore(evaluations[i]), GetKeep(evaluations[i]),
                                         ReasonAI(GetScore(evaluations[i])))
                         ELSE Evaluation(Num(DefaultScore), JTrue,
                                         ReasonAI(Num(DefaultScore)))]]

\* lines 106-110: the except branch
ParseFallback(e, entry_count) ==
    [i \in 1..entry_count |-> Evaluation(Num(DefaultScore), JTrue, ReasonParseFailed(e))]

\* lines 84: the default evaluations when the pattern matches nothing
NoMatchEvaluations(entry_count) ==
    [i \in 1..entry_count |-> Obj(Num(DefaultScore), JTrue)]

parse_ai_response(response_text, entry_count) ==
    LET m == SearchArray(response_text)
        loaded == IF m = <<0, 0>>
                  THEN [ok |-> TRUE, val |-> NoMatchEvaluations(entry_count), err |-> "none"]
                  ELSE JsonLoads(response_text, m)
    IN  IF ~loaded.ok THEN ParseFallback(loaded.err, entry_count)
        ELSE LET std == Standardize(loaded.val, entry_count)
             IN  IF std.ok THEN std.val ELSE ParseFallback(std.err, entry_count)

-----------------------------------------------------------------------------
(* Records, and DataQualityRules.validate_entry *)

\* DataQualityRules.HOTEL_KEYWORDS, in list order, transliterated.  The list
\* holds "maojin" twice, as the source does.
HOTEL_KEYWORDS ==
    << "jiudian", "binguan", "kefang", "fangjian", "qiantai", "fuwu", "ruzhu", "tuifang",
       "yuding_order", "yuding_fix", "canting", "keren", "guke", "zhuke", "guanjia", "qingjie",
       "weixiu", "sheshi", "zaocan", "huiyi", "huodong", "tousu", "jianyi", "jiedai",
       "dengji", "jiezhang", "fangka", "yaoshi", "maojin", "chuangdan", "kongtiao", "dianshi",
       "yushi", "xishu", "maojin", "tuoxie", "libin", "xingli", "jiaoxing", "xuzhu" >>

MIN_QUESTION_LENGTH == 8
MAX_QUESTION_LENGTH == 120
MIN_ANSWER_LENGTH == 30
MAX_ANSWER_LENGTH == 1200
MIN_ANSWER_CONTENT_LENGTH == 20

\* A text is the record of what the code measures of it: len(text),
\* len(text.strip()), whether it holds a question mark, and the vocabulary
\* keywords that occur in it.
Text(len, strip, mark, kws) == [len |-> len, strip |-> strip, mark |-> mark, kws |-> kws]

\* A record of the input.  shape says how far the reads of lines 75-80 get:
\*   "ok"           contents[0]['parts'][0]['text'] and contents[1]... are strings
\*   "few_turns"    'contents' is absent or holds fewer than two turns
\*   "no_text"      a turn lacks 'parts', parts[0] or 'text' (KeyError, IndexError)
\*   "not_mapping"  the document is no object: entry.get raises AttributeError
\*   "text_not_str" both texts are there but are numbers: len() raises TypeError
\*   "ok_lone_surrogate"  as "ok", and a text holds a lone surrogate, which
\*                  json.loads accepts as the escape \ud800 and the utf-8
\*                  writer of save_results cannot encode
\* seam is the set of keywords that occur in question + answer across the
\* boundary of the two texts only.
Entry(shape, q, a, seam) == [shape |-> shape, q |-> q, a |-> a, seam |-> seam]

NoText == Text(0, 0, FALSE, {})

FilterStats(ql, al, mark, related, found) ==
    [question_length |-> ql, answer_length |-> al, has_question_mark |-> mark,
     is_hotel_related |-> related, hotel_keywords_found |-> found]

ZeroStats == FilterStats(0, 0, FALSE, FALSE, <<>>)

Issue(kind, n) == [issue |-> kind, n |-> n]

\* [kw for kw in cls.HOTEL_KEYWORDS if kw in combined_text]
FoundKeywords(entry) ==
    LET occurs == entry.q.kws \cup entry.a.kws \cup entry.seam
    IN  SelectIdx(HOTEL_KEYWORDS,
                  [i \in 1..Len(HOTEL_KEYWORDS) |-> HOTEL_KEYWORDS[i] \in occurs], 1)

\* the issues list without the relevance check of lines 115-116
IssuesWithoutRelevance(entry) ==
    LET q == entry.q
        a == entry.a
    IN  (IF ~(MIN_QUESTION_LENGTH <= q.len /\ q.len <= MAX_QUESTION_LENGTH)
         THEN <<Issue("question_length", q.len)>> ELSE <<>>)
        \o (IF ~(MIN_ANSWER_LENGTH <= a.len /\ a.len <= MAX_ANSWER_LENGTH)
            THEN <<Issue("answer_length", a.len)>> ELSE <<>>)
        \o (IF ~q.mark THEN <<Issue("no_question_mark", 0)>> ELSE <<>>)
        \o (IF a.strip < MIN_ANSWER_CONTENT_LENGTH
            THEN <<Issue("answer_too_short", 0)>> ELSE <<>>)

\* lines 91-116: the issues list, in the order the checks append to it
Issues(entry) ==
    LET q == entry.q
        a == entry.a
    IN  (IF ~(MIN_QUESTION_LENGTH <= q.len /\ q.len <= MAX_QUESTION_LENGTH)
         THEN <<Issue("question_length", q.len)>> ELSE <<>>)
        \o (IF ~(MIN_ANSWER_LENGTH <= a.len /\ a.len <= MAX_ANSWER_LENGTH)
            THEN <<Issue("answer_length", a.len)>> ELSE <<>>)
        \o (IF ~q.mark THEN <<Issue("no_question_mark", 0)>> ELSE <<>>)
        \o (IF a.strip < MIN_ANSWER_CONTENT_LENGTH
            THEN <<Issue("answer_too_short", 0)>> ELSE <<>>)
        \o (IF Len(FoundKeywords(entry)) = 0
            THEN <<Issue("not_hotel_related", 0)>> ELSE <<>>)

\* line 119 without the relevance gate: at most one issue of any kind
IsValidAnyOneIssue(issues, related) == Len(issues) <= 1

\* line 119: is_valid = len(issues) <= 1 and stats.is_hotel_related
IsValid(issues, related) == Len(issues) <= 1 /\ related

\* the passed message for every accepted record, whatever its issues
VerdictPassedWhenValid(is_valid, reason, stats) ==
    [is_valid |-> is_valid, reason |-> IF is_valid THEN ReasonPassed ELSE reason,
     stats |-> stats]

Verdict(is_valid, reason, stats) == [is_valid |-> is_valid, reason |-> reason, stats |-> stats]

\* no structural guard and no except branch: the checks run on whatever
\* texts the record yields
validate_entry_checks_only(entry) ==
    LET found == FoundKeywords(entry)
        related == Len(found) > 0
        issues == Issues(entry)
    IN  Verdict(IsValid(issues, related),
                IF Len(issues) > 0 THEN ReasonIssues(issues) ELSE ReasonPassed,
                FilterStats(entry.q.len, entry.a.len, entry.q.mark, related, found))

validate_entry(entry) ==
    CASE entry.shape = "not_mapping" ->
            Verdict(FALSE, ReasonProcessingError("AttributeError"), ZeroStats)
      [] entry.shape = "few_turns" ->
            Verdict(FALSE, ReasonMissingTurns, ZeroStats)
      [] entry.shape = "no_text" ->
            Verdict(FALSE, ReasonProcessingError("KeyError"), ZeroStats)
      [] entry.shape = "text_not_str" ->
            Verdict(FALSE, ReasonProcessingError("TypeError"), ZeroStats)
      [] OTHER ->
            LET found == FoundKeywords(entry)
                related == Len(found) > 0
                issues == Issues(entry)
            IN  Verdict(IsValid(issues, related),
                        IF Len(issues) > 0 THEN ReasonIssues(issues) ELSE ReasonPassed,
                        FilterStats(entry.q.len, entry.a.len, entry.q.mark, related, found))

\* get_quality_summary, lines 148-155: keyword_counts[kw] over the matched
\* keywords of the results (0 stands for an absent key)
keyword_counts(results, kw) ==
    Cardinality({p \in (1..Len(results)) \X (1..Len(HOTEL_KEYWORDS)) :
                    /\ p[2] <= Len(results[p[1]].stats.hotel_keywords_found)
                    /\ results[p[1]].stats.hotel_keywords_found[p[2]] = kw})

-----------------------------------------------------------------------------
(* create_evaluation_prompt and evaluate_batch *)

QUESTION_LIMIT == 100
ANSWER_LIMIT == 300

\* text[:n] if len(text) > n else text
Truncated(text, n) == [len |-> Min(text.len, n), text |-> text]

\* the prompt: the number of pairs and, per pair, its 1-based position
\* marker with the truncated question and answer
create_evaluation_prompt(entries_data) ==
    [count |-> Len(entries_data),
     items |-> [i \in 1..Len(entries_data) |->
                  [pos |-> i,
                   question |-> Truncated(entries_data[i].q, QUESTION_LIMIT),
                   answer |-> Truncated(entries_data[i].a, ANSWER_LIMIT)]]]

\* len(question) of line 46 raises TypeError on a text that is no string
PromptRaises(entries_data) ==
    \E i \in 1..Len(entries_data) : entries_data[i].shape = "text_not_str"

\* a member of a batch: (original_index, entry)
Member(index, entry) == [index |-> index, entry |-> entry]

\* the evaluator reading more than the rules do: the question is to carry
\* its marker as well
ExtractableWithMarker(entry) ==
    entry.shape \in {"ok", "ok_lone_surrogate", "text_not_str"} /\ entry.q.mark

\* lines 131-145: the reads succeed and the record has two turns
Extractable(entry) == entry.shape \in {"ok", "ok_lone_surrogate", "text_not_str"}

\* every member of the batch taken as valid, the unreadable ones included
ValidEntriesUnfiltered(entries) == entries

\* valid_entries of lines 129-145
ValidEntries(entries) ==
    SelectIdx(entries, [i \in 1..Len(entries) |-> Extractable(entries[i].entry)], 1)

\* entries_data of lines 128-145
EntriesData(entries) ==
    LET valid == ValidEntries(entries) IN [i \in 1..Len(valid) |-> valid[i].entry]

\* whether evaluate_batch reaches line 154 and invokes generate_content
CallsService(entries) ==
    /\ Len(ValidEntries(entries)) > 0
    /\ ~PromptRaises(EntriesData(entries))

\* what generate_content does: it returns a text or raises RuntimeError
Returned(text) == [raised |-> FALSE, text |-> text]
Raised == [raised |-> TRUE, text |-> <<>>]

\* a result pair (original_index, evaluation)
Pair(index, evaluation) == [index |-> index, evaluation |-> evaluation]

FORMAT_ERROR_SCORE == 5
FAILED_BATCH_SCORE == 6

\* lines 168-172: the conservative fallback, built from valid_entries
BatchFallback(valid, batch_id, e) ==
    [i \in 1..Len(valid) |->
        Pair(valid[i].index,
             Evaluation(Num(FAILED_BATCH_SCORE), JTrue, ReasonBatchFailed(batch_id, e)))]

\* the format-error fallback built from valid_entries, as the fallback of
\* lines 171-172 is
FormatErrorFallbackOfValid(entries) ==
    [i \in 1..Len(ValidEntries(entries)) |->
        Pair(ValidEntries(entries)[i].index,
             Evaluation(Num(FORMAT_ERROR_SCORE), JTrue, ReasonFormatError))]

\* lines 147-149: no record of the batch was extractable
FormatErrorFallback(entries) ==
    [i \in 1..Len(entries) |->
        Pair(entries[i].index,
             Evaluation(Num(FORMAT_ERROR_SCORE), JTrue, ReasonFormatError))]

\* results keyed by the position in the batch instead of the original index
ZipResultsByPosition(valid, evaluations, batch_id) ==
    [i \in 1..Len(valid) |->
        Pair(i - 1,
             [evaluations[i] EXCEPT !.reason = ReasonBatch(batch_id, evaluations[i].score)])]

\* lines 159-166: results zipped back to the original indices
ZipResults(valid, evaluations, batch_id) ==
    [i \in 1..Len(valid) |->
        Pair(valid[i].index,
             [evaluations[i] EXCEPT !.reason = ReasonBatch(batch_id, evaluations[i].score)])]

\* reply is what generate_content does if evaluate_batch invokes it
evaluate_batch(entries, batch_id, reply) ==
    LET valid == ValidEntries(entries)
    IN  IF Len(entries) = 0 THEN <<>>
        ELSE IF Len(valid) = 0 THEN FormatErrorFallback(entries)
        ELSE IF PromptRaises(EntriesData(entries))
             THEN BatchFallback(valid, batch_id, "TypeError")
        ELSE IF reply.raised
             THEN BatchFallback(valid, batch_id, "RuntimeError")
        ELSE ZipResults(valid, parse_ai_response(reply.text, Len(valid)), batch_id)

-----------------------------------------------------------------------------
(* apply_rule_filtering's results and merge_results *)

FilterResult(index, is_kept, score, reason, stage, stats) ==
    [index |-> index, is_kept |-> is_kept, score |-> score, reason |-> reason,
     stage |-> stage, stats |-> stats]

RULE_REJECTED_SCORE == 0
RULE_PASSED_SCORE == 5

\* lines 258-267: the rule-stage result of the record at index
RuleResult(index, entry) ==
    LET v == validate_entry(entry)
    IN  FilterResult(index, Bool(v.is_valid),
                     Num(IF ~v.is_valid THEN RULE_REJECTED_SCORE ELSE RULE_PASSED_SCORE),
                     v.reason, "rule_filter", v.stats)

NOT_EVALUATED_SCORE == 5

\* an absent index treated as a rejection by the service
LookupEvaluationOrReject(ai_evaluations, index) ==
    IF index \in DOMAIN ai_evaluations THEN ai_evaluations[index]
    ELSE Evaluation(Num(NOT_EVALUATED_SCORE), JFalse, ReasonNotEvaluated)

\* lines 371-373: ai_evaluations.get(index, {...})
LookupEvaluation(ai_evaluations, index) ==
    IF index \in DOMAIN ai_evaluations THEN ai_evaluations[index]
    ELSE Evaluation(Num(NOT_EVALUATED_SCORE), JTrue, ReasonNotEvaluated)

\* ai_evaluation.get('keep', True), .get('score', 5), .get('reason', '')
KeepOf(ev) == IF ev.keep.t = "missing" THEN JTrue ELSE ev.keep
ScoreOf(ev) == IF ev.score.t = "missing" THEN Num(NOT_EVALUATED_SCORE) ELSE ev.score
ReasonOf(ev) == IF ev.reason = ReasonAbsent THEN ReasonEmpty ELSE ev.reason

\* line 377: keep and score >= config.min_score.  Python's and returns its
\* left operand when that is false, and does not evaluate the right one.
IsKept(keep, score, min_score) ==
    IF Truthy(keep) THEN Bool(Ge(score, min_score)) ELSE keep

\* line 377 raises TypeError: the comparison is reached with a score that
\* is no number
IsKeptRaises(keep, score) == Truthy(keep) /\ ~Comparable(score)

\* the AI-stage result built with statistics of its own, the rule stage's
\* dropped
FinalResultFreshStats(index, rule_result, ai_evaluations, min_score) ==
    LET ev == LookupEvaluation(ai_evaluations, index)
    IN  FilterResult(index, IsKept(KeepOf(ev), ScoreOf(ev), min_score), ScoreOf(ev),
                     ReasonOf(ev), "ai_evaluation", ZeroStats)

\* lines 375-382
FinalResult(index, rule_result, ai_evaluations, min_score) ==
    LET ev == LookupEvaluation(ai_evaluations, index)
    IN  FilterResult(index, IsKept(KeepOf(ev), ScoreOf(ev), min_score), ScoreOf(ev),
                     ReasonOf(ev), "ai_evaluation", rule_result.stats)

\* the mapping consulted first, the rule-stage verdict only for an index
\* the mapping lacks
MergedResultMappingFirst(index, rule_result, ai_evaluations, min_score) ==
    IF ~Truthy(rule_result.is_kept) /\ index \notin DOMAIN ai_evaluations THEN rule_result
    ELSE FinalResult(index, rule_result, ai_evaluations, min_score)

\* lines 364-382: the result the loop body appends for one index
MergedResult(index, rule_result, ai_evaluations, min_score) ==
    IF ~Truthy(rule_result.is_kept) THEN rule_result
    ELSE FinalResult(index, rule_result, ai_evaluations, min_score)

\* only the rule-stage rejections are appended to the low-quality list
LowQualityRuleOnly(merged) ==
    SelectIdx(merged, [i \in 1..Len(merged) |-> merged[i].stage = "rule_filter"], 1)

\* lines 366-368 and 386-387: what is appended to low_quality_results
LowQuality(merged) ==
    SelectIdx(merged, [i \in 1..Len(merged) |-> ~Truthy(merged[i].is_kept)], 1)

\* lines 384-385: what is appended to high_quality_results
HighQuality(merged) ==
    SelectIdx(merged, [i \in 1..Len(merged) |-> Truthy(merged[i].is_kept)], 1)

\* the loop raises: rule_results[index] is out of range, or line 377 raises
MergeRaises(entries, rules, ai_evaluations) ==
    \E i \in 1..Len(entries) :
        \/ i > Len(rules)
        \/ /\ Truthy(rules[i].is_kept)
           /\ IsKeptRaises(KeepOf(LookupEvaluation(ai_evaluations, i - 1)),
                           ScoreOf(LookupEvaluation(ai_evaluations, i - 1)))

Merged(raised, high, low) == [raised |-> raised, high |-> high, low |-> low]

merge_results(entries, rules, ai_evaluations, cfg) ==
    IF MergeRaises(entries, rules, ai_evaluations)
    THEN Merged(TRUE, <<>>, <<>>)
    ELSE LET merged == [i \in 1..Len(entries) |->
                          MergedResult(i - 1, rules[i], ai_evaluations,
                                       cfg.min_score)]
         IN  Merged(FALSE, HighQuality(merged), LowQuality(merged))

-----------------------------------------------------------------------------
(* The values the variables of a run have before the run starts *)

Idle == -1
NotWritten == <<"not written">>
\* the collecting loop is between two futures (line 315)
NotCollecting == [batch |-> Idle, at |-> "as_completed"]
NoConfig == [min_score |-> 0, batch_size |-> 0, max_workers |-> 0, sample_size |-> 0]

RunNotStarted ==
    /\ input_file = <<>>
    /\ config = NoConfig
    /\ data_entries = <<>>
    /\ rule_results = <<>>
    /\ passed_entries = <<>>
    /\ batches = <<>>
    /\ future = <<>>
    /\ worker = <<>>
    /\ collected = {}
    /\ all_evaluations = <<>>
    /\ processed_count = 0
    /\ service_log = <<>>
    /\ high_quality_results = <<>>
    /\ low_quality_results = <<>>
    /\ output_file = NotWritten
    /\ report = NotWritten
    /\ collecting = NotCollecting
    /\ processing_lock = "free"

runVars == <<input_file, config, data_entries, rule_results, passed_entries,
             batches, future, worker, collected, all_evaluations, processed_count,
             service_log, high_quality_results, low_quality_results, output_file,
             report, collecting, processing_lock>>

-----------------------------------------------------------------------------
(* load_data, the batches and the pool of apply_ai_evaluation *)

\* a line of the input file that json.loads rejects
MalformedLine == Entry("malformed_json", NoText, NoText, {})

RECURSIVE LoadFrom(_, _, _, _)
\* lines 224-236, from line i on, with the entries loaded so far
LoadFrom(lines, i, loaded, sample_size) ==
    IF i > Len(lines) THEN loaded
    ELSE IF lines[i].shape = "malformed_json"
         THEN LoadFrom(lines, i + 1, loaded, sample_size)
    ELSE IF sample_size # 0 /\ Len(loaded) + 1 >= sample_size
         THEN Append(loaded, lines[i])
    ELSE LoadFrom(lines, i + 1, Append(loaded, lines[i]), sample_size)

\* sample_size 0 stands for None: both are false in line 230
load_data(lines, sample_size) == LoadFrom(lines, 1, <<>>, sample_size)

\* the batches cut from all loaded records, the rule stage's verdicts ignored
BatchesOfLoaded(passed, batch_size) ==
    LET n == Len(data_entries)
        count == (n + batch_size - 1) \div batch_size
        loaded == [i \in 1..n |-> Member(i - 1, data_entries[i])]
    IN  [b \in 1..count |->
            SubSeq(loaded, (b - 1) * batch_size + 1, Min(b * batch_size, n))]

\* only the full slices, a shorter last one left out
BatchesWithoutRemainder(passed, batch_size) ==
    [b \in 1..(Len(passed) \div batch_size) |->
        SubSeq(passed, (b - 1) * batch_size + 1, b * batch_size)]

\* lines 301-302: passed_entries[i:i + batch_size] for i in range(0, len, batch_size);
\* batch ids are the positions 0, 1, ... (line 311)
Batches(passed, batch_size) ==
    LET n == Len(passed)
        count == (n + batch_size - 1) \div batch_size
    IN  [b \in 1..count |->
            SubSeq(passed, (b - 1) * batch_size + 1, Min(b * batch_size, n))]

\* a pool without a thread: no submitted call ever starts
PoolSizeZero(cfg) == 0

\* a pool with one thread more than max_workers
PoolSizeOneMore(cfg) == cfg.max_workers + 1

\* line 307: ThreadPoolExecutor(max_workers=config.max_workers)
PoolSize(cfg) == cfg.max_workers

\* a future: "queued", "running" or "finished", with the result evaluate_batch
\* returned once it is finished
Future(state, results) == [state |-> state, results |-> results]

\* a batch whose evaluation failed goes back to the queue
CompletedOrRetried(results) ==
    IF \E i \in 1..Len(results) : results[i].evaluation.reason.kind = "eval_failed_batch"
    THEN Future("queued", <<>>)
    ELSE Future("finished", results)

\* line 310: the future of a submitted call completes with what
\* evaluate_batch returned; nothing submits the batch again
Completed(results) == Future("finished", results)

\* the reply of a call evaluate_batch never makes
NoReply == [raised |-> FALSE, text |-> <<>>]

\* results keyed by the position of arrival in the mapping
MergeByArrival(evaluations, batch_results) ==
    LET n == Cardinality(DOMAIN evaluations)
    IN  [k \in DOMAIN evaluations \cup {n + i - 1 : i \in 1..Len(batch_results)} |->
            IF k \in DOMAIN evaluations THEN evaluations[k]
            ELSE batch_results[k - n + 1].evaluation]

\* lines 318-319: all_evaluations[original_index] = evaluation, pair by pair
MergeBatchResults(evaluations, batch_results) ==
    LET keys == {batch_results[i].index : i \in 1..Len(batch_results)}
        last(k) == CHOOSE i \in 1..Len(batch_results) :
                      /\ batch_results[i].index = k
                      /\ \A j \in 1..Len(batch_results) : batch_results[j].index = k => j <= i
    IN  [k \in DOMAIN evaluations \cup keys |->
            IF k \in keys THEN batch_results[last(k)].evaluation ELSE evaluations[k]]

\* file.write raises UnicodeEncodeError on this record (line 407)
Encodable(entry) == entry.shape # "ok_lone_surrogate"

\* what save_results has written when it returns or raises
Saved(raised, written) == [raised |-> raised, written |-> written]

\* lines 404-408: one line per high-quality result, in the order of the
\* list; the loop stops at the first record the file cannot encode
save_results(entries, high) ==
    LET bad == {i \in 1..Len(high) : ~Encodable(entries[high[i].index + 1])}
        n == IF bad = {} THEN Len(high)
             ELSE (CHOOSE i \in bad : \A k \in bad : i <= k) - 1
    IN  Saved(bad # {}, [i \in 1..n |-> entries[high[i].index + 1]])

CRASHED_BATCH_SCORE == 6

\* the batch of a future that raised is left out of the mapping
CrashedBatchDropped(evaluations, batch, batch_id) == evaluations

\* lines 328-335: the future raised; every member of its batch gets the
\* conservative evaluation
CrashedBatchFallback(evaluations, batch, batch_id) ==
    LET keys == {batch[i].index : i \in 1..Len(batch)}
    IN  [k \in DOMAIN evaluations \cup keys |->
            IF k \in keys
            THEN Evaluation(Num(CRASHED_BATCH_SCORE), JTrue, ReasonBatchCrashed(batch_id))
            ELSE evaluations[k]]

\* the document generate_report writes (lines 431-467)
Report(entries, high, low) ==
    [total_entries |-> Len(entries),
     high_quality_entries |-> Len(high),
     low_quality_entries |-> Len(low),
     rule_filter_failed |->
         Cardinality({i \in 1..Len(low) : low[i].stage = "rule_filter"}),
     ai_evaluation_failed |->
         Cardinality({i \in 1..Len(low) : low[i].stage = "ai_evaluation"})]

-----------------------------------------------------------------------------
(* parse_ai_response on its own *)

\* the JSON elements the response arrays are built from
ItemSamples ==
    { Obj(Num(8), JTrue), Obj(Num(3), JFalse), Obj(Missing, JFalse),
      Obj(Num(9), Missing), Obj(Num(4), Missing), Obj(Missing, Missing),
      Obj(JNull, JTrue), Obj(JStr, JFalse), Obj(Num(9), JStr),
      Scalar, ObjRb(Num(8), JTrue), ObjReason(Num(8), JTrue) }

\* what precedes the array: nothing, prose, prose citing "[1]", a stray "]"
TextPrefixes == { <<>>, <<Prose>>, <<Prose, LB, Scalar, RB, Prose>>, <<RB>> }
TextSuffixes == { <<>>, <<Prose>> }
\* no array at all, an unclosed "[", "[see below]", or an array of elements
TextBodies ==
    { <<>>, <<LB>>, <<LB, Prose, RB>> }
        \cup { <<LB>> \o items \o <<RB>> : items \in SeqsUpTo(ItemSamples, MaxItems) }

ResponseTexts ==
    { pre \o body \o suf : pre \in TextPrefixes, body \in TextBodies, suf \in TextSuffixes }

InitParse ==
    /\ pc = "call"
    /\ args \in [response_text : ResponseTexts, entry_count : 0..MaxCount]
    /\ result = <<>>
    /\ RunNotStarted

CallParse ==
    /\ pc = "call"
    /\ result' = parse_ai_response(args.response_text, args.entry_count)
    /\ pc' = "return"
    /\ UNCHANGED <<args, runVars>>

NextParse == CallParse

SpecParse == InitParse /\ [][NextParse]_vars

-----------------------------------------------------------------------------
(* Claims about parse_ai_response *)

\* the response text holds no bracketed array, or one that does not decode
NoDecodableArray(text) ==
    \/ SearchArray(text) = <<0, 0>>
    \/ ~JsonLoads(text, SearchArray(text)).ok

AllDefault(evals) ==
    \A i \in 1..Len(evals) : evals[i].score = Num(7) /\ evals[i].keep = JTrue

\* C8: for every response text and every expected count n >= 0,
\* parse_ai_response returns exactly n items, and when the text holds no
\* bracketed array or the array cannot be decoded, all n items have
\* score 7 and keep true.
C8_ExactlyNItems ==
    pc = "return" =>
        /\ Len(result) = args.entry_count
        /\ DOMAIN result = 1..args.entry_count
        /\ NoDecodableArray(args.response_text) => AllDefault(result)

\* C8's case: an undecodable array and a text with no array, n = 3
C8_Witness ==
    /\ pc = "return"
    /\ args.entry_count = 3
    /\ args.response_text = <<LB, ObjRb(Num(8), JTrue), RB>>
    /\ Len(result) = 3
    /\ AllDefault(result)

\* the response text is exactly a JSON array of n objects that each carry
\* a score member and a keep member
WellFormedArrayOf(text, n) ==
    /\ Len(text) = n + 2
    /\ text[1] = LB
    /\ text[n + 2] = RB
    /\ \A i \in 2..(n + 1) :
          /\ text[i].tok = "item"
          /\ text[i].obj
          /\ text[i].score.t # "missing"
          /\ text[i].keep.t # "missing"

SameVerdicts(text, n, evals) ==
    /\ Len(evals) = n
    /\ \A i \in 1..n :
          /\ evals[i].score = text[i + 1].score
          /\ evals[i].keep = text[i + 1].keep

Decoded(text) == JsonLoads(text, SearchArray(text)).val

\* the response holds a decodable array of fewer than n elements, all objects
ShortArrayOfObjects(text, n) ==
    /\ ~NoDecodableArray(text)
    /\ Len(Decoded(text)) < n
    /\ \A i \in 1..Len(Decoded(text)) : Decoded(text)[i].obj

\* the verdict the claim gives the element: its score, or 7 without one; its
\* keep, or score >= 7 of the resolved score without one
ResolvedScore(item) == IF item.score.t = "missing" THEN Num(7) ELSE item.score
ResolvedKeep(item) ==
    IF item.keep.t = "missing" THEN Bool(ResolvedScore(item).v >= 7) ELSE item.keep

\* the first k items carry the verdicts of the k elements, the others 7/true
PaddedVerdicts(items, n, evals) ==
    /\ Len(evals) = n
    /\ \A i \in 1..n :
          IF i <= Len(items)
          THEN /\ evals[i].score = ResolvedScore(items[i])
               /\ evals[i].keep = ResolvedKeep(items[i])
          ELSE /\ evals[i].score = Num(7)
               /\ evals[i].keep = JTrue

\* C25 as stated: when a decoded array of objects has k < expectedCount
\* items, parse_ai_response keeps the first k items' verdicts and gives the
\* items at positions k..expectedCount-1 score 7 and keep true; an item
\* lacking score gets 7 and one lacking keep gets score >= 7.
C25_AsStated ==
    (pc = "return" /\ ShortArrayOfObjects(args.response_text, args.entry_count))
        => PaddedVerdicts(Decoded(args.response_text), args.entry_count, result)

\* C25 amended: the same, for arrays in which every score that is present
\* is a number.
C25_ShortArrayPadded ==
    ( /\ pc = "return"
      /\ ShortArrayOfObjects(args.response_text, args.entry_count)
      /\ \A i \in 1..Len(Decoded(args.response_text)) :
            Comparable(ResolvedScore(Decoded(args.response_text)[i])) )
        => PaddedVerdicts(Decoded(args.response_text), args.entry_count, result)

\* C25's case: three items expected, an array of an element without score
\* and one without keep
C25_Witness ==
    /\ pc = "return"
    /\ args.entry_count = 3
    /\ args.response_text = <<Prose, LB, Obj(Missing, JFalse), Obj(Num(4), Missing), RB>>
    /\ result[1].score = Num(7) /\ result[1].keep = JFalse
    /\ result[2].score = Num(4) /\ result[2].keep = JFalse
    /\ result[3].score = Num(7) /\ result[3].keep = JTrue

\* the exception parse_ai_response catches on this text, or "none"
ParseError(text, n) ==
    IF SearchArray(text) = <<0, 0>> THEN "none"
    ELSE IF ~JsonLoads(text, SearchArray(text)).ok THEN "JSONDecodeError"
    ELSE Standardize(Decoded(text), n).err

\* C26 as stated: on every path of parse_ai_response, the fallback paths
\* included, each returned item's reason is the fixed template embedding
\* that item's resolved score, and no reason text of the service appears.
C26_AsStated ==
    pc = "return" =>
        \A i \in 1..Len(result) :
            /\ result[i].reason = ReasonAI(result[i].score)
            /\ result[i].reason # ReasonOfService

\* C26 amended: when no error occurs (an array was decoded and standardized,
\* or no array was found) each item's reason is the fixed template embedding
\* its resolved score; when an error occurs each item's reason is the
\* parse-failed template embedding the error; on no path does a reason text
\* of the service appear.
C26_ReasonRegenerated ==
    pc = "return" =>
        LET e == ParseError(args.response_text, args.entry_count)
        IN  \A i \in 1..Len(result) :
                /\ e = "none" => result[i].reason = ReasonAI(result[i].score)
                /\ e # "none" =>
                      /\ result[i].reason = ReasonParseFailed(e)
                      /\ e \in {"JSONDecodeError", "AttributeError", "TypeError"}
                /\ result[i].reason # ReasonOfService

\* C26's case: the element carries a reason of its own, two items expected
C26_Witness ==
    /\ pc = "return"
    /\ args.entry_count = 2
    /\ args.response_text = <<LB, ObjReason(Num(8), JTrue), RB>>
    /\ result[1] = Evaluation(Num(8), JTrue, ReasonAI(Num(8)))
    /\ result[2] = Evaluation(Num(7), JTrue, ReasonAI(Num(7)))

\* the text is prose, a JSON array of n objects that each carry a numeric
\* score and a keep flag, and prose again; the array starts after `before'
\* tokens of prose
ArrayInProse(text, n, before) ==
    /\ \E pre \in TextPrefixes : Len(pre) = before /\ SubSeq(text, 1, before) = pre
    /\ \E suf \in TextSuffixes :
          /\ Len(text) = before + n + 2 + Len(suf)
          /\ SubSeq(text, before + n + 3, Len(text)) = suf
    /\ Len(text) >= before + n + 2
    /\ text[before + 1] = LB
    /\ text[before + n + 2] = RB
    /\ \A i \in 1..n :
          /\ text[before + 1 + i].tok = "item"
          /\ text[before + 1 + i].obj
          /\ text[before + 1 + i].score.t = "num"
          /\ text[before + 1 + i].keep.t = "bool"

\* C27 as stated: if the response text is a valid JSON array of n
\* {score, keep} objects preceded and followed by arbitrary prose, which may
\* hold bracket characters, as may string values inside the array, the n
\* returned items carry the array's scores and keep flags, not the fallback.
C27_TolerantOfSurroundingProse ==
    pc = "return" =>
        \A before \in 0..Len(args.response_text) :
            ArrayInProse(args.response_text, args.entry_count, before) =>
                /\ Len(result) = args.entry_count
                /\ \A i \in 1..args.entry_count :
                      /\ result[i].score = args.response_text[before + 1 + i].score
                      /\ result[i].keep = args.response_text[before + 1 + i].keep

-----------------------------------------------------------------------------
(* validate_entry on its own *)

QuestionLengths == {2, 7, 8, 120, 121}
AnswerLengths == {2, 19, 20, 29, 30, 1200, 1201}
\* whitespace characters at the two ends of the answer
Paddings == {0, 1, 11}
KeywordSets == { {}, {"jiudian"}, {"maojin"}, {"kefang", "fuwu"} }

\* a text of this length can hold these keywords (two characters each) and
\* the question mark
Fits(len, mark, kws) == 2 * Cardinality(kws) + (IF mark THEN 1 ELSE 0) <= len

Questions ==
    { Text(n, n, m, k) : n \in QuestionLengths, m \in BOOLEAN, k \in KeywordSets }

Answers ==
    { Text(n, n - p, FALSE, k) : n \in AnswerLengths, p \in Paddings, k \in KeywordSets }

ReadableEntries ==
    { e \in { Entry("ok", q, a, s) : q \in Questions, a \in Answers,
                                     s \in { {}, {"fuwu"} } } :
        /\ Fits(e.q.len, e.q.mark, e.q.kws)
        /\ e.a.strip >= 0
        /\ Fits(e.a.strip, FALSE, e.a.kws)
        /\ e.seam # {} => (e.q.len >= 1 /\ e.a.strip = e.a.len) }

UnreadableEntries ==
    { Entry(sh, NoText, NoText, {}) :
        sh \in {"few_turns", "no_text", "not_mapping", "text_not_str"} }

InitValidate ==
    /\ pc = "call"
    /\ args \in [entry : ReadableEntries \cup UnreadableEntries]
    /\ result = <<>>
    /\ RunNotStarted

CallValidate ==
    /\ pc = "call"
    /\ result' = validate_entry(args.entry)
    /\ pc' = "return"
    /\ UNCHANGED <<args, runVars>>

NextValidate == CallValidate

SpecValidate == InitValidate /\ [][NextValidate]_vars

-----------------------------------------------------------------------------
(* Claims about validate_entry *)

\* some vocabulary keyword occurs in question + answer
DomainRelevant(e) ==
    \E i \in 1..Len(HOTEL_KEYWORDS) : HOTEL_KEYWORDS[i] \in (e.q.kws \cup e.a.kws \cup e.seam)

\* how many of the four non-domain checks the record fails
NonDomainFailures(e) ==
    (IF e.q.len >= 8 /\ e.q.len <= 120 THEN 0 ELSE 1)
    + (IF e.a.len >= 30 /\ e.a.len <= 1200 THEN 0 ELSE 1)
    + (IF e.q.mark THEN 0 ELSE 1)
    + (IF e.a.strip >= 20 THEN 0 ELSE 1)

\* C2: for every structurally readable record, validate_entry returns
\* isValid = true if and only if the record is domain-relevant and at most
\* one of the four non-domain checks failed.
C2_AcceptancePolicy ==
    (pc = "return" /\ args.entry.shape = "ok")
        => (result.is_valid <=> (DomainRelevant(args.entry) /\ NonDomainFailures(args.entry) <= 1))

\* C2's case: a relevant record whose only failing check is the question
\* marker is accepted
C2_Witness ==
    /\ pc = "return"
    /\ args.entry.shape = "ok"
    /\ DomainRelevant(args.entry)
    /\ NonDomainFailures(args.entry) = 1
    /\ ~args.entry.q.mark
    /\ result.is_valid

\* the keywords that occur in question + answer
Occurring(e) == e.q.kws \cup e.a.kws \cup e.seam

\* C29 as stated: the matched keywords validate_entry records hold each
\* keyword that occurs in question + answer exactly once and no keyword
\* twice, so one record adds at most 1 to a keyword's count in the report's
\* keyword histogram.
C29_EachKeywordOnce ==
    (pc = "return" /\ args.entry.shape = "ok") =>
        LET found == result.stats.hotel_keywords_found
        IN  /\ \A kw \in Range(HOTEL_KEYWORDS) :
                  Cardinality({i \in 1..Len(found) : found[i] = kw}) =
                      IF kw \in Occurring(args.entry) THEN 1 ELSE 0
            /\ Range(found) \subseteq Range(HOTEL_KEYWORDS)
            /\ \A kw \in Range(HOTEL_KEYWORDS) :
                  keyword_counts(<<RuleResult(0, args.entry)>>, kw) <= 1

-----------------------------------------------------------------------------
(* evaluate_batch on its own *)

\* the first record of tests/test_data_quality.py: 13 and 56 characters
GoodEntry == Entry("ok", Text(13, 13, TRUE, {"jiudian", "zaocan"}),
                   Text(56, 56, FALSE, {"jiudian", "zaocan", "canting"}), {})
\* relevant, with the question marker as its only failing check
NoMarkEntry == Entry("ok", Text(8, 8, FALSE, {"kefang"}), Text(40, 40, FALSE, {"fuwu"}), {})
\* the weather record of the tests: no keyword
WeatherEntry == Entry("ok", Text(8, 8, TRUE, {}), Text(30, 30, FALSE, {}), {})
FewTurnsEntry == Entry("few_turns", NoText, NoText, {})
NoTextEntry == Entry("no_text", NoText, NoText, {})
NotMappingEntry == Entry("not_mapping", NoText, NoText, {})
TextNotStrEntry == Entry("text_not_str", NoText, NoText, {})

BatchEntrySamples ==
    { GoodEntry, NoMarkEntry, FewTurnsEntry, NoTextEntry, NotMappingEntry, TextNotStrEntry }

\* what the service may do with a prompt
ReplySamples ==
    { Raised,
      Returned(<<Prose>>),
      Returned(<<LB, Obj(Num(8), JTrue), Obj(Num(3), JFalse), RB>>),
      Returned(<<Prose, LB, Obj(Num(9), JStr), RB>>),
      Returned(<<LB, Obj(JNull, JTrue), RB>>),
      Returned(<<LB, Obj(Missing, JFalse), ObjRb(Num(8), JTrue), RB>>) }

\* the batches: up to MaxBatch records under increasing original indices
BatchesOf(samples) ==
    { [i \in 1..Len(es) |-> Member(base + i - 1, es[i])] :
        es \in SeqsUpTo(samples, MaxBatch), base \in {0, 5} }

InitBatch ==
    /\ pc = "call"
    /\ args \in [entries : BatchesOf(BatchEntrySamples), batch_id : {0, 4},
                 reply : ReplySamples]
    /\ result = <<>>
    /\ RunNotStarted

CallBatch ==
    /\ pc = "call"
    /\ result' = evaluate_batch(args.entries, args.batch_id, args.reply)
    /\ pc' = "return"
    /\ UNCHANGED <<args, runVars>>

NextBatch == CallBatch

SpecBatch == InitBatch /\ [][NextBatch]_vars

-----------------------------------------------------------------------------
(* Claims about evaluate_batch *)

\* the try block of lines 151-166 raised: prompt construction did, or the
\* collaborator did when it was invoked
BatchRaised(a) ==
    /\ Len(ValidEntries(a.entries)) > 0
    /\ PromptRaises(EntriesData(a.entries)) \/ a.reply.raised

\* C4: if the collaborator (or prompt construction or parsing) raises while
\* evaluate_batch processes a batch, the returned sequence holds, for every
\* member of the input batch, extractable or not, an evaluation with
\* score 6 and keep true.
C4_FallbackForEveryMember ==
    (pc = "return" /\ BatchRaised(args))
        => \A i \in 1..Len(args.entries) :
              \E k \in 1..Len(result) :
                 /\ result[k].index = args.entries[i].index
                 /\ result[k].evaluation.score = Num(6)
                 /\ result[k].evaluation.keep = JTrue

\* no record of the batch yields question and answer text
NoneExtractable(entries) ==
    \A i \in 1..Len(entries) : ~Extractable(entries[i].entry)

\* C23: if no record of a non-empty batch yields extractable text,
\* evaluate_batch returns score 5, keep true and the format-error reason for
\* every member of the batch, in batch order, and does not invoke the
\* collaborator: the result is the same whatever the service would do.
C23_FormatErrorForEveryMember ==
    (pc = "return" /\ Len(args.entries) > 0 /\ NoneExtractable(args.entries)) =>
        /\ Len(result) = Len(args.entries)
        /\ \A i \in 1..Len(args.entries) :
              /\ result[i].index = args.entries[i].index
              /\ result[i].evaluation.score = Num(5)
              /\ result[i].evaluation.keep = JTrue
              /\ result[i].evaluation.reason = ReasonFormatError
        /\ ~CallsService(args.entries)
        /\ \A r \in ReplySamples :
              evaluate_batch(args.entries, args.batch_id, r) = result

\* C23's case: a batch of a record with one turn and a document that is no
\* mapping, under indices 5 and 6, with a service that would raise
C23_Witness ==
    /\ pc = "return"
    /\ args.reply = Raised
    /\ Len(args.entries) = 2
    /\ args.entries[1] = Member(5, FewTurnsEntry)
    /\ args.entries[2] = Member(6, NotMappingEntry)
    /\ result[1].index = 5
    /\ result[2].index = 6
    /\ result[1].evaluation = Evaluation(Num(5), JTrue, ReasonFormatError)

\* some records of the batch are extractable and some are not
PartlyExtractable(entries) ==
    /\ \E i \in 1..Len(entries) : Extractable(entries[i].entry)
    /\ \E i \in 1..Len(entries) : ~Extractable(entries[i].entry)

\* the positions of the extractable records of the batch, in batch order
ExtractablePositions(entries) ==
    SelectIdx([i \in 1..Len(entries) |-> i],
              [i \in 1..Len(entries) |-> Extractable(entries[i].entry)], 1)

\* C24: when some but not all records of a batch are extractable and the
\* collaborator call succeeds, evaluate_batch returns entries for the
\* extractable records only, in batch order, each under its own original
\* index; the i-th extractable record is at prompt position i and receives
\* the i-th parsed evaluation; unextractable records are absent.
C24_OnlyExtractableInOrder ==
    ( /\ pc = "return"
      /\ PartlyExtractable(args.entries)
      /\ CallsService(args.entries)
      /\ ~args.reply.raised ) =>
        LET at == ExtractablePositions(args.entries)
            data == [i \in 1..Len(at) |-> args.entries[at[i]].entry]
            prompt == create_evaluation_prompt(EntriesData(args.entries))
            parsed == parse_ai_response(args.reply.text, Len(at))
        IN  /\ Len(result) = Len(at)
            /\ Len(result) < Len(args.entries)
            /\ prompt.count = Len(at)
            /\ \A i \in 1..Len(at) :
                  /\ result[i].index = args.entries[at[i]].index
                  /\ prompt.items[i].pos = i
                  /\ prompt.items[i].question.text = data[i].q
                  /\ prompt.items[i].answer.text = data[i].a
                  /\ result[i].evaluation.score = parsed[i].score
                  /\ result[i].evaluation.keep = parsed[i].keep
            /\ \A k \in 1..Len(args.entries) :
                  ~Extractable(args.entries[k].entry) =>
                      \A i \in 1..Len(result) : result[i].index # args.entries[k].index

\* C24's case: a record of one turn between two readable ones, and the
\* verdicts of the spec's example: the third record gets the second verdict
C24_Witness ==
    /\ pc = "return"
    /\ args.entries = <<Member(5, GoodEntry), Member(6, FewTurnsEntry), Member(7, NoMarkEntry)>>
    /\ args.reply = Returned(<<LB, Obj(Num(8), JTrue), Obj(Num(3), JFalse), RB>>)
    /\ Len(result) = 2
    /\ result[1].index = 5 /\ result[1].evaluation.score = Num(8)
    /\ result[2].index = 7 /\ result[2].evaluation.score = Num(3)
    /\ result[2].evaluation.keep = JFalse

-----------------------------------------------------------------------------
(* merge_results on its own *)

\* minimum scores that validate_arguments admits (1 <= min_score <= 10)
MinScores == {1, 7, 8}

MergeEntrySamples == { GoodEntry, WeatherEntry, FewTurnsEntry }

\* the service answers a prompt of one record with a score of 15
OutOfScaleReply == Returned(<<LB, Obj(Num(15), JTrue), RB>>)

\* what evaluate_batch hands over for that record
OutOfScaleEvaluation ==
    evaluate_batch(<<Member(0, GoodEntry)>>, 0, OutOfScaleReply)[1].evaluation

\* evaluations the AI stage can hand over, and two that lack keys
EvaluationSamples ==
    { OutOfScaleEvaluation,
      Evaluation(Num(8), JTrue, ReasonBatch(0, Num(8))),
      Evaluation(Num(9), JFalse, ReasonBatch(0, Num(9))),
      Evaluation(Num(7), JTrue, ReasonBatch(0, Num(7))),
      Evaluation(Num(9), JStr, ReasonBatch(0, Num(9))),
      Evaluation(Missing, JTrue, ReasonAbsent),
      Evaluation(Num(10), Missing, ReasonAbsent) }

\* m and the key k, which is no record's index
WithKey(m, k) ==
    [x \in DOMAIN m \cup {k} |->
        IF x = k THEN Evaluation(Num(8), JTrue, ReasonBatch(0, Num(8))) ELSE m[x]]

\* the mappings from some of the indices 0..n-1, with and without a key n
MappingsOver(n) ==
    LET inside == UNION { [keys -> EvaluationSamples] : keys \in SUBSET (0..(n - 1)) }
    IN  inside \cup { WithKey(m, n) : m \in inside }

InitMerge ==
    /\ pc = "call"
    /\ \E es \in SeqsUpTo(MergeEntrySamples, MaxMerge) :
         \E m \in MappingsOver(Len(es)) :
           \E ms \in MinScores :
              args = [data_entries |-> es,
                      rule_results |-> [i \in 1..Len(es) |-> RuleResult(i - 1, es[i])],
                      ai_evaluations |-> m,
                      config |-> [min_score |-> ms, batch_size |-> 12, max_workers |-> 6,
                                  sample_size |-> 0]]
    /\ result = <<>>
    /\ RunNotStarted

CallMerge ==
    /\ pc = "call"
    /\ result' = merge_results(args.data_entries, args.rule_results,
                               args.ai_evaluations, args.config)
    /\ pc' = "return"
    /\ UNCHANGED <<args, runVars>>

NextMerge == CallMerge

SpecMerge == InitMerge /\ [][NextMerge]_vars

-----------------------------------------------------------------------------
(* Claims about merge_results *)

\* how many results of the list carry this index
CountIndex(results, index) ==
    Cardinality({k \in 1..Len(results) : results[k].index = index})

\* C1: for any N records, rule-stage results and evaluation mapping
\* (possibly missing indices), merge_results returns high and low with
\* len(high) + len(low) = N, and every index 0..N-1 is the index of exactly
\* one FilterResult of exactly one of the two lists.
C1_PartitionCoversEveryIndex ==
    pc = "return" =>
        /\ ~result.raised
        /\ Len(result.high) + Len(result.low) = Len(args.data_entries)
        /\ \A index \in 0..(Len(args.data_entries) - 1) :
              CountIndex(result.high, index) + CountIndex(result.low, index) = 1

\* C1's case: two records, one missing from the mapping, one in each list
C1_Witness ==
    /\ pc = "return"
    /\ Len(args.data_entries) = 2
    /\ DOMAIN args.ai_evaluations = {1}
    /\ Len(result.high) = 1
    /\ Len(result.low) = 1
    /\ result.high[1].index = 0
    /\ result.low[1].index = 1
    /\ result.low[1].stage = "ai_evaluation"

\* the record at index is in the high-quality list and not in the low one
InHigh(index) == CountIndex(result.high, index) = 1 /\ CountIndex(result.low, index) = 0
InLow(index) == CountIndex(result.low, index) = 1 /\ CountIndex(result.high, index) = 0

\* the evaluation merge_results uses for index: the mapping's, with the
\* neutral default for an absent index or key
UsedKeep(index) == KeepOf(LookupEvaluation(args.ai_evaluations, index))
UsedScore(index) == ScoreOf(LookupEvaluation(args.ai_evaluations, index))

\* C3 as stated: a rule-accepted record is in the high-quality partition
\* if and only if its evaluation has keep = true and score >= min_score,
\* and in the low-quality partition otherwise.
C3_AsStated ==
    pc = "return" =>
        \A i \in 1..Len(args.data_entries) :
            Truthy(args.rule_results[i].is_kept) =>
                LET accept == /\ UsedKeep(i - 1) = JTrue
                              /\ UsedScore(i - 1).v >= args.config.min_score
                IN  /\ accept => InHigh(i - 1)
                    /\ ~accept => InLow(i - 1)

-----------------------------------------------------------------------------
(* A run of filter_data *)

\* what the service does with the prompts of a run: it raises, returns a
\* text without an array, an array that does not decode, the verdicts of
\* the spec's example, or an array with a null score
RunReplies ==
    { Raised,
      Returned(<<Prose>>),
      Returned(<<LB, ObjRb(Num(8), JTrue), RB>>),
      Returned(<<LB, Obj(Num(8), JTrue), Obj(Num(3), JFalse), RB>>),
      Returned(<<LB, Obj(JNull, JTrue), RB>>) }

\* the lines of the input file of a run: two records the rules pass, and two
\* they reject
LineSamples == { GoodEntry, NoMarkEntry, WeatherEntry, FewTurnsEntry }

\* ProcessingConfig: the default min_score and a stricter one, batches of one
\* and of two records, a pool of one and of two threads, no sampling and a
\* sample of two
Configs ==
    [min_score : {7, 8}, batch_size : {1, 2}, max_workers : {1, 2},
     sample_size : {0, 2}]

Init ==
    /\ pc = "load"
    /\ input_file \in SeqsUpTo(LineSamples, MaxLines)
    /\ config \in Configs
    /\ data_entries = <<>>
    /\ rule_results = <<>>
    /\ passed_entries = <<>>
    /\ batches = <<>>
    /\ future = <<>>
    /\ worker = <<>>
    /\ collected = {}
    /\ all_evaluations = <<>>
    /\ processed_count = 0
    /\ service_log = <<>>
    /\ high_quality_results = <<>>
    /\ low_quality_results = <<>>
    /\ output_file = NotWritten
    /\ report = NotWritten
    /\ args = <<>>
    /\ result = <<>>
    /\ collecting = NotCollecting
    /\ processing_lock = "free"

\* line 493
LoadData ==
    /\ pc = "load"
    /\ data_entries' = load_data(input_file, config.sample_size)
    /\ pc' = "rule_filter"
    /\ UNCHANGED <<input_file, config, rule_results, passed_entries, batches, future,
                   worker, collected, all_evaluations, processed_count, service_log,
                   high_quality_results, low_quality_results, output_file, report,
                   args, result, collecting, processing_lock>>

\* every record handed on to the AI stage, whatever the verdict
PassesAlways(res) == TRUE

\* line 270: if is_valid
Passes(res) == Truthy(res.is_kept)

\* lines 257-271: one iteration of the loop of apply_rule_filtering
RuleFilterEntry ==
    /\ pc = "rule_filter"
    /\ Len(rule_results) < Len(data_entries)
    /\ LET index == Len(rule_results)
           entry == data_entries[index + 1]
           res == RuleResult(index, entry)
       IN  /\ rule_results' = Append(rule_results, res)
           /\ passed_entries' = IF Passes(res)
                                THEN Append(passed_entries, Member(index, entry))
                                ELSE passed_entries
    /\ UNCHANGED <<pc, input_file, config, data_entries, batches, future, worker,
                   collected, all_evaluations, processed_count, service_log,
                   high_quality_results, low_quality_results, output_file, report,
                   args, result, collecting, processing_lock>>

\* lines 273-280 and 498-312: the pass rate (a division by len(data_entries)),
\* the halt when nothing passed, then the batches and their submission
RuleFilterDone ==
    /\ pc = "rule_filter"
    /\ Len(rule_results) = Len(data_entries)
    /\ IF Len(data_entries) = 0
       THEN /\ pc' = "raised"
            /\ UNCHANGED <<batches, future, worker>>
       ELSE IF Len(passed_entries) = 0
       THEN /\ pc' = "halted"
            /\ UNCHANGED <<batches, future, worker>>
       ELSE /\ pc' = "ai_evaluation"
            /\ batches' = Batches(passed_entries, config.batch_size)
            /\ future' = [b \in 0..(Len(batches') - 1) |-> Future("queued", <<>>)]
            /\ worker' = [w \in 1..PoolSize(config) |-> Idle]
    /\ UNCHANGED <<input_file, config, data_entries, rule_results, passed_entries,
                   collected, all_evaluations, processed_count, service_log,
                   high_quality_results, low_quality_results, output_file, report,
                   args, result, collecting, processing_lock>>

Queued == {b \in DOMAIN future : future[b].state = "queued"}

\* A pool thread takes the oldest queued batch and runs evaluate_batch up to
\* its call of generate_content (line 154), or to its end if it makes none.
\* The threads are interchangeable: the idle one of the lowest number takes it.
WorkerStart(w) ==
    /\ pc = "ai_evaluation"
    /\ worker[w] = Idle
    /\ \A v \in DOMAIN worker : worker[v] = Idle => w <= v
    /\ Queued # {}
    /\ LET b == CHOOSE x \in Queued : \A y \in Queued : x <= y
           entries == batches[b + 1]
       IN  IF CallsService(entries)
           THEN /\ future' = [future EXCEPT ![b].state = "running"]
                /\ worker' = [worker EXCEPT ![w] = b]
                /\ service_log' = Append(service_log, b)
           ELSE /\ future' = [future EXCEPT
                                 ![b] = Completed(evaluate_batch(entries, b, NoReply))]
                /\ UNCHANGED <<worker, service_log>>
    /\ UNCHANGED <<pc, input_file, config, data_entries, rule_results, passed_entries,
                   batches, collected, all_evaluations, processed_count,
                   high_quality_results, low_quality_results, output_file, report,
                   args, result, collecting, processing_lock>>

\* the pool thread writes the pairs of its batch into the mapping itself
ServiceReplyWritingMapping(w, reply) ==
    /\ pc = "ai_evaluation"
    /\ worker[w] # Idle
    /\ LET b == worker[w]
           done == Completed(evaluate_batch(batches[b + 1], b, reply))
       IN  /\ future' = [future EXCEPT ![b] = done]
           /\ all_evaluations' = MergeBatchResults(all_evaluations, done.results)
    /\ worker' = [worker EXCEPT ![w] = Idle]
    /\ UNCHANGED <<service_log, pc, input_file, config, data_entries, rule_results, passed_entries,
                   batches, collected, processed_count,
                   high_quality_results, low_quality_results, output_file, report,
                   args, result, collecting, processing_lock>>

\* generate_content returns or raises, and evaluate_batch runs to its end
ServiceReply(w, reply) ==
    /\ pc = "ai_evaluation"
    /\ worker[w] # Idle
    /\ LET b == worker[w]
       IN  /\ future' = [future EXCEPT
                            ![b] = Completed(evaluate_batch(batches[b + 1], b, reply))]
    /\ worker' = [worker EXCEPT ![w] = Idle]
    /\ UNCHANGED <<service_log, pc, input_file, config, data_entries, rule_results, passed_entries,
                   batches, collected, all_evaluations, processed_count,
                   high_quality_results, low_quality_results, output_file, report,
                   args, result, collecting, processing_lock>>

\* lines 315-326: as_completed hands over a finished future; its pairs are
\* merged into the mapping and the progress count is updated
CollectBatch(b) ==
    /\ pc = "ai_evaluation"
    /\ collecting = NotCollecting
    /\ b \in DOMAIN future
    /\ b \notin collected
    /\ future[b].state = "finished"
    /\ all_evaluations' = MergeBatchResults(all_evaluations, future[b].results)
    /\ processed_count' = processed_count + Len(future[b].results)
    /\ collected' = collected \cup {b}
    /\ UNCHANGED <<pc, input_file, config, data_entries, rule_results, passed_entries,
                   batches, future, worker, service_log, high_quality_results,
                   low_quality_results, output_file, report, args, result, collecting,
                   processing_lock>>

\* lines 336-340 and 506-508: every future was handed over; merge_results
MergeResults ==
    /\ pc = "ai_evaluation"
    /\ collected = DOMAIN future
    /\ LET merged == merge_results(data_entries, rule_results, all_evaluations, config)
       IN  IF merged.raised
           THEN /\ pc' = "raised"
                /\ UNCHANGED <<high_quality_results, low_quality_results>>
           ELSE /\ pc' = "save"
                /\ high_quality_results' = merged.high
                /\ low_quality_results' = merged.low
    /\ UNCHANGED <<input_file, config, data_entries, rule_results, passed_entries,
                   batches, future, worker, collected, all_evaluations, processed_count,
                   service_log, output_file, report, args, result, collecting, processing_lock>>

\* line 511: save_results; what it raises, filter_data raises again
SaveResults ==
    /\ pc = "save"
    /\ LET saved == save_results(data_entries, high_quality_results)
       IN  /\ output_file' = saved.written
           /\ pc' = IF saved.raised THEN "raised" ELSE "report"
    /\ UNCHANGED <<input_file, config, data_entries, rule_results, passed_entries,
                   batches, future, worker, collected, all_evaluations, processed_count,
                   service_log, high_quality_results, low_quality_results, report,
                   args, result, collecting, processing_lock>>

\* lines 430-475: retention_rate divides by len(data_entries)
GenerateReport ==
    /\ pc = "report"
    /\ IF Len(data_entries) = 0
       THEN pc' = "raised" /\ UNCHANGED report
       ELSE /\ report' = Report(data_entries, high_quality_results, low_quality_results)
            /\ pc' = "done"
    /\ UNCHANGED <<input_file, config, data_entries, rule_results, passed_entries,
                   batches, future, worker, collected, all_evaluations, processed_count,
                   service_log, high_quality_results, low_quality_results, output_file,
                   args, result, collecting, processing_lock>>

Next ==
    \/ LoadData
    \/ RuleFilterEntry
    \/ RuleFilterDone
    \/ \E w \in DOMAIN worker : WorkerStart(w)
    \/ \E w \in DOMAIN worker : \E reply \in RunReplies : ServiceReply(w, reply)
    \/ \E b \in DOMAIN future : CollectBatch(b)
    \/ MergeResults
    \/ SaveResults
    \/ GenerateReport

Spec == Init /\ [][Next]_vars

-----------------------------------------------------------------------------
(* Claims about a run of filter_data *)

\* the reply with a null score and a keep
NullScoreReply == Returned(<<LB, Obj(JNull, JTrue), RB>>)

\* C5: once a record has passed the rule stage, nothing the judgment service
\* does (it raises, returns no array, an array that does not decode, or an
\* array with a null score) makes filter_data raise: the run goes through
\* the AI evaluation, merge, save and report.
C5_ServiceCannotAbortRun ==
    passed_entries # <<>> => pc # "raised"

\* C5's case: a run that ended after one call raised and another returned a
\* null score
C5_Witness ==
    /\ pc = "done"
    /\ \E b \in DOMAIN future :
          future[b].results = evaluate_batch(batches[b + 1], b, Raised)
    /\ \E b \in DOMAIN future :
          future[b].results = evaluate_batch(batches[b + 1], b, NullScoreReply)

\* the result pairs of the batches handed over so far
ResultPairs(done) == UNION {Range(future[b].results) : b \in done}

\* C6: the mapping apply_ai_evaluation returns holds, under each original
\* index, the evaluation evaluate_batch returned for it, whatever the size of
\* the pool and the order in which the batches complete and are handed over.
C6_MappingIndependentOfCompletionOrder ==
    pc \in {"ai_evaluation", "save", "report", "done"} =>
        /\ DOMAIN all_evaluations = {p.index : p \in ResultPairs(collected)}
        /\ \A p \in ResultPairs(collected) : all_evaluations[p.index] = p.evaluation

\* C6's case: with a pool of two, batch 1 completed and was merged while
\* batch 0 was still running
C6_Witness ==
    /\ pc = "ai_evaluation"
    /\ config.max_workers = 2
    /\ collected = {1}
    /\ future[0].state = "running"
    /\ DOMAIN all_evaluations = {p.index : p \in Range(future[1].results)}
    /\ all_evaluations # <<>>

\* the batches whose evaluate_batch call has started and not finished
InFlight == {b \in DOMAIN future : future[b].state = "running"}

\* a pool thread leaves its batch only when the batch is finished
RunsToCompletion ==
    \A w \in DOMAIN worker :
        (worker[w] # Idle /\ worker'[w] # worker[w]) =>
            /\ worker'[w] = Idle
            /\ future'[worker[w]].state = "finished"

\* C7: at every moment of apply_ai_evaluation at most config.max_workers
\* batches are in flight, each on a thread of its own, and a thread runs its
\* batch to completion before it starts another.
C7_BoundedInFlight ==
    /\ [](/\ Cardinality(InFlight) <= config.max_workers
          /\ \A b \in InFlight :
                Cardinality({w \in DOMAIN worker : worker[w] = b}) = 1
          /\ \A w \in DOMAIN worker : worker[w] # Idle => worker[w] \in InFlight)
    /\ [][RunsToCompletion]_vars

\* C7's case: the pool is full and a batch waits in the queue
C7_Witness ==
    /\ pc = "ai_evaluation"
    /\ Cardinality(InFlight) = config.max_workers
    /\ Queued # {}

\* the replies without a decodable array
UndecodableReplies ==
    { Returned(<<Prose>>), Returned(<<LB, ObjRb(Num(8), JTrue), RB>>) }

\* the parser fell back for batch b
ParserFellBack(b) ==
    \E r \in UndecodableReplies :
        future[b].results = evaluate_batch(batches[b + 1], b, r)

\* the record of this index is in the high-quality partition, and in the
\* output file once it is written
KeptAndSaved(index) ==
    \E i \in 1..Len(high_quality_results) :
        /\ high_quality_results[i].index = index
        /\ pc \in {"report", "done"} => output_file[i] = data_entries[index + 1]

\* C10 as stated: when the parser falls back because the response has no
\* decodable array, every record of that batch ends in the high-quality
\* partition and in the saved output, for every permitted min_score.
C10_FallbackNeverDiscards ==
    pc \in {"save", "report", "done"} =>
        \A b \in DOMAIN future :
            ParserFellBack(b) =>
                \A k \in 1..Len(batches[b + 1]) : KeptAndSaved(batches[b + 1][k].index)

\* the rule stage is over and no record passed it
NothingPassed ==
    /\ pc \notin {"load", "rule_filter"}
    /\ passed_entries = <<>>

\* C11 as stated: when no record passes the rule stage, the case of zero
\* loaded records included, filter_data halts without a call of the
\* judgment service, without the output file or the report, and without
\* raising.
C11_HaltsWithoutRaising ==
    NothingPassed =>
        /\ pc = "halted"
        /\ service_log = <<>>
        /\ output_file = NotWritten
        /\ report = NotWritten

-----------------------------------------------------------------------------
(* Further claims about merge_results on its own *)

\* the results of a list that carry this index
ResultsOf(results, index) == {results[k] : k \in {j \in 1..Len(results) : results[j].index = index}}

\* C12: every record the rule stage rejected is in the low-quality list as
\* its unchanged rule-stage FilterResult (stage rule_filter, score 0, the
\* rule stage's reason and stats), whether or not the mapping has an entry
\* for its index.
C12_RuleRejectedVerbatim ==
    pc = "return" =>
        \A i \in 1..Len(args.data_entries) :
            ~Truthy(args.rule_results[i].is_kept) =>
                /\ InLow(i - 1)
                /\ ResultsOf(result.low, i - 1) = {args.rule_results[i]}
                /\ args.rule_results[i].stage = "rule_filter"
                /\ args.rule_results[i].score = Num(RULE_REJECTED_SCORE)

\* C12's case: a rejected record whose index the mapping holds, with a
\* keep and a score that would accept it
C12_Witness ==
    /\ pc = "return"
    /\ Len(args.data_entries) = 1
    /\ ~Truthy(args.rule_results[1].is_kept)
    /\ 0 \in DOMAIN args.ai_evaluations
    /\ args.ai_evaluations[0].keep = JTrue
    /\ args.ai_evaluations[0].score = Num(8)
    /\ result.low = args.rule_results

\* the neutral evaluation, as a final result of the record at index
NeutralResult(index, is_kept) ==
    FilterResult(index, Bool(is_kept), Num(NOT_EVALUATED_SCORE), ReasonNotEvaluated,
                 "ai_evaluation", args.rule_results[index + 1].stats)

\* C13: a rule-accepted record whose index the mapping lacks gets the
\* neutral evaluation (score 5, keep true, reason "not evaluated") and the
\* normal acceptance rule: high if 5 >= min_score, low otherwise; the merge
\* does not fail on it.
C13_NeutralEvaluationForAbsentIndex ==
    pc = "return" =>
        /\ ~result.raised
        /\ \A i \in 1..Len(args.data_entries) :
              (Truthy(args.rule_results[i].is_kept) /\ (i - 1) \notin DOMAIN args.ai_evaluations) =>
                  LET accept == NOT_EVALUATED_SCORE >= args.config.min_score
                      final == NeutralResult(i - 1, accept)
                  IN  /\ accept => InHigh(i - 1) /\ ResultsOf(result.high, i - 1) = {final}
                      /\ ~accept => InLow(i - 1) /\ ResultsOf(result.low, i - 1) = {final}

\* C13's case: an accepted record absent from a mapping that holds another
\* key, kept under min_score 1
C13_Witness ==
    /\ pc = "return"
    /\ Len(args.data_entries) = 1
    /\ Truthy(args.rule_results[1].is_kept)
    /\ DOMAIN args.ai_evaluations = {1}
    /\ args.config.min_score = 1
    /\ Len(result.high) = 1
    /\ result.high[1].reason = ReasonNotEvaluated

\* the results of the two partitions
FinalResults == Range(result.high) \cup Range(result.low)

\* C30 as stated: every FilterResult of the final partitions has a numeric
\* score that is 0 when the record was rejected at the rule stage and lies on
\* the scale 1..10 otherwise, whatever scores the judgment service returned.
C30_ScoreOnScale ==
    pc = "return" =>
        \A r \in FinalResults :
            /\ r.score.t = "num"
            /\ r.stage = "rule_filter" => r.score.v = 0
            /\ r.stage = "ai_evaluation" => (1 <= r.score.v /\ r.score.v <= 10)

-----------------------------------------------------------------------------
(* save_results on its own *)

\* a record the rules pass whose question holds a lone surrogate
LoneSurrogateEntry ==
    Entry("ok_lone_surrogate", Text(14, 14, TRUE, {"jiudian", "zaocan"}),
          Text(56, 56, FALSE, {"jiudian", "zaocan", "canting"}), {})

SaveEntrySamples == { GoodEntry, NoMarkEntry, WeatherEntry, LoneSurrogateEntry }

\* the verdicts of the AI stage for the records of a run: kept or not
SaveEvaluationSamples ==
    { Evaluation(Num(8), JTrue, ReasonBatch(0, Num(8))),
      Evaluation(Num(3), JFalse, ReasonBatch(0, Num(3))) }

\* the high-quality list merge_results builds for these records
HighOf(es, m) ==
    merge_results(es, [i \in 1..Len(es) |-> RuleResult(i - 1, es[i])], m,
                  [min_score |-> 7, batch_size |-> 12, max_workers |-> 6,
                   sample_size |-> 0]).high

InitSave ==
    /\ pc = "call"
    /\ \E es \in SeqsUpTo(SaveEntrySamples, MaxSave) :
         \E m \in [0..(Len(es) - 1) -> SaveEvaluationSamples] :
            args = [data_entries |-> es, high_quality_results |-> HighOf(es, m)]
    /\ result = <<>>
    /\ RunNotStarted

CallSave ==
    /\ pc = "call"
    /\ result' = save_results(args.data_entries, args.high_quality_results)
    /\ pc' = "return"
    /\ UNCHANGED <<args, runVars>>

NextSave == CallSave

SpecSave == InitSave /\ [][NextSave]_vars

\* C14 as stated: the saved output is exactly the records of the
\* high-quality partition, one per line, in strictly increasing original
\* index order, each equal to the input record at that index.
C14_OutputIsHighQualityInOrder ==
    pc = "return" =>
        LET high == args.high_quality_results
        IN  /\ ~result.raised
            /\ Len(result.written) = Len(high)
            /\ \A i \in 1..Len(high) :
                  /\ i <= Len(result.written)
                  /\ result.written[i] = args.data_entries[high[i].index + 1]
            /\ \A i, j \in 1..Len(high) : i < j => high[i].index < high[j].index

-----------------------------------------------------------------------------
(* Further claims about a run of filter_data *)

\* the members of the batches of the run
BatchMembers == UNION {Range(batches[b]) : b \in 1..Len(batches)}

\* the records of the prompts sent to the service so far
PromptRecords == UNION {Range(EntriesData(batches[b + 1])) : b \in Range(service_log)}

\* C15: a record with fewer than two turns is judged invalid by
\* validate_entry, with zero-valued stats and the missing-turns reason alone
\* (no other check ran), and in a run it is in no batch and in no prompt
\* sent to the judgment service.
C15_FewTurnsNeverReachService ==
    /\ \A i \in 1..Len(rule_results) :
          data_entries[i].shape = "few_turns" =>
              /\ rule_results[i] =
                     FilterResult(i - 1, JFalse, Num(RULE_REJECTED_SCORE),
                                  ReasonMissingTurns, "rule_filter", ZeroStats)
              /\ \A m \in BatchMembers : m.index # i - 1
    /\ \A m \in BatchMembers : m.entry.shape # "few_turns"
    /\ \A e \in PromptRecords : e.shape # "few_turns"

\* C15's case: a run with a record of fewer than two turns in which a
\* prompt was sent
C15_Witness ==
    /\ pc = "done"
    /\ \E i \in 1..Len(data_entries) : data_entries[i].shape = "few_turns"
    /\ service_log # <<>>

-----------------------------------------------------------------------------
(* Further claims about validate_entry on its own *)

\* C16: validate_entry never raises: for a record without 'contents' or
\* with fewer than two turns, without 'parts' or 'text', with texts of a
\* wrong type, or for a document that is no mapping, it returns an invalid
\* verdict with a non-empty reason and zero-valued stats.
C16_UnreadableRecordIsInvalid ==
    (pc = "return" /\ args.entry.shape # "ok") =>
        /\ ~result.is_valid
        /\ result.reason.kind \in {"missing_turns", "processing_error"}
        /\ result.reason.kind = "processing_error" =>
               result.reason.err \in {"AttributeError", "KeyError", "TypeError"}
        /\ result.stats = ZeroStats

\* C16's case: the texts are there and are no strings
C16_Witness ==
    /\ pc = "return"
    /\ args.entry.shape = "text_not_str"
    /\ result = Verdict(FALSE, ReasonProcessingError("TypeError"), ZeroStats)

\* the kinds of the issues of a reason
IssueKinds(reason) == {reason.issues[i].issue : i \in 1..Len(reason.issues)}

\* C17: a readable record whose question + answer holds no vocabulary
\* keyword is rejected, with is_hotel_related false, no matched keyword and
\* a reason that holds the domain-irrelevance diagnostic, whatever the
\* length and question-marker checks gave.
C17_IrrelevantRecordRejected ==
    (pc = "return" /\ args.entry.shape = "ok" /\ ~DomainRelevant(args.entry)) =>
        /\ ~result.is_valid
        /\ ~result.stats.is_hotel_related
        /\ result.stats.hotel_keywords_found = <<>>
        /\ "not_hotel_related" \in IssueKinds(result.reason)

\* C17's case: the record fails no other check
C17_Witness ==
    /\ pc = "return"
    /\ args.entry.shape = "ok"
    /\ ~DomainRelevant(args.entry)
    /\ NonDomainFailures(args.entry) = 0
    /\ ~result.is_valid
    /\ result.reason = ReasonIssues(<<Issue("not_hotel_related", 0)>>)

\* the checks of validate_entry the record fails
FailedChecks(e) ==
    (IF e.q.len >= 8 /\ e.q.len <= 120 THEN {} ELSE {"question_length"})
    \cup (IF e.a.len >= 30 /\ e.a.len <= 1200 THEN {} ELSE {"answer_length"})
    \cup (IF e.q.mark THEN {} ELSE {"no_question_mark"})
    \cup (IF e.a.strip >= 20 THEN {} ELSE {"answer_too_short"})
    \cup (IF DomainRelevant(e) THEN {} ELSE {"not_hotel_related"})

\* how many diagnostics of this kind the reason holds
Diagnostics(reason, kind) ==
    Cardinality({i \in 1..Len(reason.issues) : reason.issues[i].issue = kind})

\* C18: the reason of a readable record holds exactly one diagnostic for
\* each failed check and none for a passed one, and it is the "passed rule
\* check" message if and only if no check failed.
C18_OneDiagnosticPerFailedCheck ==
    (pc = "return" /\ args.entry.shape = "ok") =>
        /\ (result.reason = ReasonPassed) <=> (FailedChecks(args.entry) = {})
        /\ FailedChecks(args.entry) # {} =>
              /\ result.reason.kind = "issues"
              /\ \A kind \in {"question_length", "answer_length", "no_question_mark",
                               "answer_too_short", "not_hotel_related"} :
                    Diagnostics(result.reason, kind) =
                        IF kind \in FailedChecks(args.entry) THEN 1 ELSE 0
              /\ Len(result.reason.issues) = Cardinality(FailedChecks(args.entry))

\* C18's case: the question and the answer are both too short, and the
\* reason holds both length diagnostics
C18_Witness ==
    /\ pc = "return"
    /\ args.entry.shape = "ok"
    /\ args.entry.q.len = 2
    /\ args.entry.a.len = 2
    /\ Diagnostics(result.reason, "question_length") = 1
    /\ Diagnostics(result.reason, "answer_length") = 1

\* how many times the collaborator was called for batch b
Calls(b) == Cardinality({k \in 1..Len(service_log) : service_log[k] = b})

\* a record of batch b has extractable text
HasExtractable(b) == \E k \in 1..Len(batches[b + 1]) : Extractable(batches[b + 1][k].entry)

\* a finished batch stays as it is: it is not evaluated again
NoRetry ==
    \A b \in DOMAIN future :
        future[b].state = "finished" => future'[b] = future[b]

\* C19: in a run each batch is evaluated at most once, evaluate_batch calls
\* the collaborator exactly once for a batch with a record of extractable
\* text and never otherwise, and the calls of the run are at most as many
\* as its batches.
C19_OneCallPerBatch ==
    /\ [](/\ \A b \in DOMAIN future :
                Calls(b) = IF future[b].state # "queued" /\ HasExtractable(b) THEN 1 ELSE 0
          /\ Len(service_log) <= Len(batches))
    /\ [][NoRetry]_vars

\* C19's case: a run of two batches ended; the call of the first raised,
\* and each batch was sent once
C19_Witness ==
    /\ pc = "done"
    /\ Len(batches) = 2
    /\ service_log = <<0, 1>>
    /\ future[0].results = evaluate_batch(batches[1], 0, Raised)

-----------------------------------------------------------------------------
(* apply_ai_evaluation on its own, with an evaluator that may raise *)

\* passed_entries as apply_rule_filtering builds it from these records
PassedOf(es) ==
    LET members == [i \in 1..Len(es) |-> Member(i - 1, es[i])]
    IN  SelectIdx(members, [i \in 1..Len(es) |-> Passes(RuleResult(i - 1, es[i]))], 1)

PassedSamples == { PassedOf(es) : es \in SeqsUpTo({GoodEntry, WeatherEntry}, MaxPassedFrom) }

AIConfigs == { c \in Configs : c.min_score = 7 /\ c.sample_size = 0 }

InitAI ==
    /\ pc = "ai_call"
    /\ passed_entries \in PassedSamples
    /\ config \in AIConfigs
    /\ input_file = <<>>
    /\ data_entries = <<>>
    /\ rule_results = <<>>
    /\ batches = <<>>
    /\ future = <<>>
    /\ worker = <<>>
    /\ collected = {}
    /\ all_evaluations = <<>>
    /\ processed_count = 0
    /\ service_log = <<>>
    /\ high_quality_results = <<>>
    /\ low_quality_results = <<>>
    /\ output_file = NotWritten
    /\ report = NotWritten
    /\ args = <<>>
    /\ result = <<>>
    /\ collecting = NotCollecting
    /\ processing_lock = "free"

\* lines 294-312: nothing to evaluate, or the batches and their submission
SubmitBatches ==
    /\ pc = "ai_call"
    /\ IF Len(passed_entries) = 0
       THEN /\ pc' = "ai_return"
            /\ UNCHANGED <<batches, future, worker>>
       ELSE /\ pc' = "ai_evaluation"
            /\ batches' = Batches(passed_entries, config.batch_size)
            /\ future' = [b \in 0..(Len(batches') - 1) |-> Future("queued", <<>>)]
            /\ worker' = [w \in 1..PoolSize(config) |-> Idle]
    /\ UNCHANGED <<input_file, config, data_entries, rule_results, passed_entries,
                   collected, all_evaluations, processed_count, service_log,
                   high_quality_results, low_quality_results, output_file, report,
                   args, result, collecting, processing_lock>>

\* the evaluator's call for the batch of thread w raises an Exception
EvaluatorRaises(w) ==
    /\ pc = "ai_evaluation"
    /\ worker[w] # Idle
    /\ future' = [future EXCEPT ![worker[w]] = Future("raised", <<>>)]
    /\ worker' = [worker EXCEPT ![w] = Idle]
    /\ UNCHANGED <<pc, input_file, config, data_entries, rule_results, passed_entries,
                   batches, collected, all_evaluations, processed_count, service_log,
                   high_quality_results, low_quality_results, output_file, report,
                   args, result, collecting, processing_lock>>

\* lines 315-317 and 328-335: as_completed hands over a future whose
\* result() raises
CollectRaised(b) ==
    /\ pc = "ai_evaluation"
    /\ collecting = NotCollecting
    /\ b \in DOMAIN future
    /\ b \notin collected
    /\ future[b].state = "raised"
    /\ all_evaluations' = CrashedBatchFallback(all_evaluations, batches[b + 1], b)
    /\ collected' = collected \cup {b}
    /\ UNCHANGED <<pc, input_file, config, data_entries, rule_results, passed_entries,
                   batches, future, worker, processed_count, service_log,
                   high_quality_results, low_quality_results, output_file, report,
                   args, result, collecting, processing_lock>>

\* lines 336-340: every future was handed over
ReturnEvaluations ==
    /\ pc = "ai_evaluation"
    /\ collected = DOMAIN future
    /\ pc' = "ai_return"
    /\ UNCHANGED <<input_file, config, data_entries, rule_results, passed_entries,
                   batches, future, worker, collected, all_evaluations, processed_count,
                   service_log, high_quality_results, low_quality_results, output_file,
                   report, args, result, collecting, processing_lock>>

NextAI ==
    \/ SubmitBatches
    \/ \E w \in DOMAIN worker : WorkerStart(w)
    \/ \E w \in DOMAIN worker : \E reply \in RunReplies : ServiceReply(w, reply)
    \/ \E w \in DOMAIN worker : EvaluatorRaises(w)
    \/ \E b \in DOMAIN future : CollectBatch(b)
    \/ \E b \in DOMAIN future : CollectRaised(b)
    \/ ReturnEvaluations

SpecAI == InitAI /\ [][NextAI]_vars

\* the evaluation of lines 333-335 for a member of batch b
CrashedEvaluation(b) ==
    Evaluation(Num(CRASHED_BATCH_SCORE), JTrue, ReasonBatchCrashed(b))

\* C20: when the future of a batch raises, apply_ai_evaluation does not
\* raise: every member of that batch is in the mapping with score 6 and
\* keep true, the other batches are collected, and their results are in the
\* mapping as evaluate_batch returned them.
C20_RaisedFutureGetsFallback ==
    /\ pc \in {"ai_call", "ai_evaluation", "ai_return"}
    /\ \A b \in collected :
          /\ future[b].state = "raised" =>
                \A k \in 1..Len(batches[b + 1]) :
                    /\ batches[b + 1][k].index \in DOMAIN all_evaluations
                    /\ all_evaluations[batches[b + 1][k].index] = CrashedEvaluation(b)
          /\ future[b].state = "finished" =>
                \A p \in Range(future[b].results) :
                    /\ p.index \in DOMAIN all_evaluations
                    /\ all_evaluations[p.index] = p.evaluation
    /\ pc = "ai_return" => collected = DOMAIN future

\* C20's case: of two batches the first raised and the second returned the
\* service's verdict; both are in the returned mapping
C20_Witness ==
    /\ pc = "ai_return"
    /\ Len(batches) = 2
    /\ future[0].state = "raised"
    /\ future[1].state = "finished"
    /\ all_evaluations[batches[1][1].index] = CrashedEvaluation(0)
    /\ all_evaluations[batches[2][1].index].score = Num(8)

\* the indices of the records handed to apply_ai_evaluation
PassedIndices == {passed_entries[i].index : i \in 1..Len(passed_entries)}

\* the keys the collecting loop writes for the future of batch b, in order:
\* those of its result pairs (lines 318-319), or of the batch members when
\* the future raised (lines 332-335)
WrittenKeys(b) ==
    IF future[b].state = "raised"
    THEN [i \in 1..Len(batches[b + 1]) |-> batches[b + 1][i].index]
    ELSE [i \in 1..Len(future[b].results) |-> future[b].results[i].index]

\* a step of the collecting loop writes keys the mapping does not hold yet,
\* each once, and leaves the entries of the mapping as they are; no other
\* step changes the mapping
WritesFreshKeys ==
    /\ \A b \in collected' \ collected :
          LET written == WrittenKeys(b)
          IN  /\ \A i \in DOMAIN written : written[i] \notin DOMAIN all_evaluations
              /\ \A i, j \in DOMAIN written : i # j => written[i] # written[j]
              /\ DOMAIN all_evaluations' = DOMAIN all_evaluations \cup Range(written)
              /\ \A k \in DOMAIN all_evaluations : all_evaluations'[k] = all_evaluations[k]
    /\ collected' = collected => all_evaluations' = all_evaluations

\* C21: when apply_ai_evaluation returns, the mapping holds one evaluation
\* under the index of every record handed to it and no other key, and during
\* the call each key is written exactly once, never again by a later batch.
C21_EachKeyWrittenOnce ==
    /\ [](pc = "ai_return" => DOMAIN all_evaluations = PassedIndices)
    /\ [](DOMAIN all_evaluations \subseteq PassedIndices)
    /\ [][WritesFreshKeys]_vars

\* C21's case: the records of indices 0 and 2 went through two batches, one
\* of which raised, and the call returned
C21_Witness ==
    /\ pc = "ai_return"
    /\ Len(batches) = 2
    /\ PassedIndices = {0, 2}
    /\ DOMAIN all_evaluations = {0, 2}
    /\ \E b \in DOMAIN future : future[b].state = "raised"
    /\ \E b \in DOMAIN future : future[b].state = "finished"

RECURSIVE Concatenation(_, _)
\* the batches from the i-th on, one after the other
Concatenation(bs, i) == IF i > Len(bs) THEN <<>> ELSE bs[i] \o Concatenation(bs, i + 1)

\* C28: apply_ai_evaluation partitions the passed records into contiguous
\* batches: every batch has between 1 and batch_size records, all but
\* possibly the last have exactly batch_size, the batches one after the other
\* in batch-id order are the passed records, and the batch ids are the
\* positions 0, 1, 2, ...: batch b is evaluated under the id b.
C28_ContiguousBatches ==
    pc \in {"ai_evaluation", "ai_return"} =>
        /\ \A b \in 1..Len(batches) :
              /\ Len(batches[b]) >= 1
              /\ Len(batches[b]) <= config.batch_size
              /\ b < Len(batches) => Len(batches[b]) = config.batch_size
        /\ Concatenation(batches, 1) = passed_entries
        /\ DOMAIN future = 0..(Len(batches) - 1)
        /\ \A b \in DOMAIN future :
              future[b].state = "finished" =>
                  /\ Len(future[b].results) = Len(batches[b + 1])
                  /\ \A k \in 1..Len(future[b].results) :
                        /\ future[b].results[k].index = batches[b + 1][k].index
                        /\ future[b].results[k].evaluation.reason.batch = b

\* C28's case: three records in batches of two: a full batch 0 and a
\* batch 1 of one record, both evaluated
C28_Witness ==
    /\ pc = "ai_return"
    /\ config.batch_size = 2
    /\ Len(passed_entries) = 3
    /\ Len(batches) = 2
    /\ Len(batches[1]) = 2
    /\ batches[2] = <<passed_entries[3]>>
    /\ future[0].state = "finished"
    /\ future[1].state = "finished"

-----------------------------------------------------------------------------
(* The body of the collecting loop of apply_ai_evaluation, statement by     *)
(* statement, with the pool threads running beside it                       *)

\* the position of the loop body for the future of batch b
At(b, at) == [batch |-> b, at |-> at]

\* the loop body goes from the merge straight to the count, the region
\* never entered
AfterMergeSkipLock(b) == At(b, "count")

\* line 322 follows the merge: with self.processing_lock
AfterMerge(b) == At(b, "lock")

\* lines 315-319: as_completed hands over a finished future, result()
\* returns its pairs and the loop writes them to the mapping
TakeFuture(b) ==
    /\ pc = "ai_evaluation"
    /\ collecting = NotCollecting
    /\ b \in DOMAIN future
    /\ b \notin collected
    /\ future[b].state = "finished"
    /\ all_evaluations' = MergeBatchResults(all_evaluations, future[b].results)
    /\ collecting' = AfterMerge(b)
    /\ UNCHANGED <<pc, input_file, config, data_entries, rule_results, passed_entries,
                   batches, future, worker, collected, processed_count, service_log,
                   high_quality_results, low_quality_results, output_file, report,
                   args, result, processing_lock>>

\* line 322: the lock is acquired
AcquireLock ==
    /\ pc = "ai_evaluation"
    /\ collecting.at = "lock"
    /\ processing_lock = "free"
    /\ processing_lock' = "held"
    /\ collecting' = At(collecting.batch, "count")
    /\ UNCHANGED <<pc, input_file, config, data_entries, rule_results, passed_entries,
                   batches, future, worker, collected, all_evaluations, processed_count,
                   service_log, high_quality_results, low_quality_results, output_file,
                   report, args, result>>

\* lines 323-326: the count and the rate that is logged
UpdateProgress ==
    /\ pc = "ai_evaluation"
    /\ collecting.at = "count"
    /\ processed_count' = processed_count + Len(future[collecting.batch].results)
    /\ collecting' = At(collecting.batch, "release")
    /\ UNCHANGED <<pc, input_file, config, data_entries, rule_results, passed_entries,
                   batches, future, worker, collected, all_evaluations, service_log,
                   high_quality_results, low_quality_results, output_file, report,
                   args, result, processing_lock>>

\* the end of the with block of line 322: the lock is released and the loop
\* goes on to the next future
ReleaseLock ==
    /\ pc = "ai_evaluation"
    /\ collecting.at = "release"
    /\ processing_lock' = "free"
    /\ collected' = collected \cup {collecting.batch}
    /\ collecting' = NotCollecting
    /\ UNCHANGED <<pc, input_file, config, data_entries, rule_results, passed_entries,
                   batches, future, worker, all_evaluations, processed_count,
                   service_log, high_quality_results, low_quality_results, output_file,
                   report, args, result>>

NextLock ==
    \/ SubmitBatches
    \/ \E w \in DOMAIN worker : WorkerStart(w)
    \/ \E w \in DOMAIN worker : \E reply \in RunReplies : ServiceReply(w, reply)
    \/ \E w \in DOMAIN worker : EvaluatorRaises(w)
    \/ \E b \in DOMAIN future : TakeFuture(b)
    \/ AcquireLock
    \/ UpdateProgress
    \/ ReleaseLock
    \/ \E b \in DOMAIN future : CollectRaised(b)
    \/ ReturnEvaluations

SpecLock == InitAI /\ [][NextLock]_vars

\* the step writes to the mapping
WritesMapping == all_evaluations' # all_evaluations

\* the step updates the processed count
UpdatesCount == processed_count' # processed_count

\* the step is inside the mutual-exclusion region
InsideRegion == processing_lock = "held"

\* the region is entered for a future that returned and was not handed over
\* before, and it is left with that future handed over
OncePerReturnedBatch ==
    /\ (processing_lock = "free" /\ processing_lock' = "held") =>
           /\ collecting.batch \notin collected
           /\ future[collecting.batch].state = "finished"
    /\ (processing_lock = "held" /\ processing_lock' = "free") =>
           collected' = collected \cup {collecting.batch}
    /\ \A b \in collected' \ collected :
           future[b].state = "finished" => (processing_lock = "held" /\ processing_lock' = "free")

-----------------------------------------------------------------------------
(* Termination of apply_ai_evaluation *)

\* What the scheduling gives: the coordinator runs (it submits, takes every
\* completed future that as_completed hands over, and returns), an idle pool
\* thread takes the oldest queued call, and every call that was started
\* returns or raises.
FairnessAI ==
    /\ WF_vars(SubmitBatches)
    /\ WF_vars(\E w \in DOMAIN worker : WorkerStart(w))
    /\ WF_vars(\E w \in DOMAIN worker :
                  \/ \E reply \in RunReplies : ServiceReply(w, reply)
                  \/ EvaluatorRaises(w))
    /\ WF_vars(\E b \in DOMAIN future : CollectBatch(b) \/ CollectRaised(b))
    /\ WF_vars(ReturnEvaluations)

FairSpecAI == SpecAI /\ FairnessAI

\* the future of a batch only moves forward: from the queue to a pool
\* thread, and from there to its result or its exception; the coordinator
\* takes no call back
NeverCancelled ==
    \A b \in DOMAIN future :
        \/ future'[b] = future[b]
        \/ future[b].state = "queued" /\ future'[b].state \in {"running", "finished"}
        \/ future[b].state = "running" /\ future'[b].state \in {"finished", "raised"}

\* every submitted batch has completed and its results, or its fallback,
\* are in the mapping
EveryBatchMerged ==
    /\ collected = DOMAIN future
    /\ \A b \in DOMAIN future :
          /\ future[b].state \in {"finished", "raised"}
          /\ \A k \in 1..Len(batches[b + 1]) :
                /\ batches[b + 1][k].index \in DOMAIN all_evaluations
                /\ all_evaluations[batches[b + 1][k].index] =
                      IF future[b].state = "raised" THEN CrashedEvaluation(b)
                      ELSE future[b].results[k].evaluation

\* C31: provided every collaborator call eventually returns or raises,
\* apply_ai_evaluation eventually returns, and it returns only after every
\* submitted batch has completed and its results or its fallback have been
\* merged into the mapping; the coordinator never cancels or times out a
\* batch.
C31_EventuallyReturns ==
    /\ <>(pc = "ai_return")
    /\ [](pc = "ai_return" => EveryBatchMerged)
    /\ [][NeverCancelled]_vars

\* C31's case: a pool of one thread, three batches that waited in the
\* queue, one call raised, and the coordinator returned
C31_Witness ==
    /\ pc = "ai_return"
    /\ config.max_workers = 1
    /\ Len(batches) = 3
    /\ EveryBatchMerged
    /\ future[1].state = "raised"
    /\ future[2].state = "finished"

-----------------------------------------------------------------------------
(* The order of the stages of a run of filter_data *)

\* the rule stage has produced a verdict for every loaded record
RuleStageOver ==
    /\ pc \notin {"load", "rule_filter"}
    /\ Len(rule_results) = Len(data_entries)

\* every batch has completed and was handed over, and no pool thread runs
AIStageOver ==
    /\ collected = DOMAIN future
    /\ \A b \in DOMAIN future : future[b].state = "finished"
    /\ \A w \in DOMAIN worker : worker[w] = Idle

\* merge, save or report has started
MergeStarted ==
    \/ pc \in {"save", "report", "done"}
    \/ high_quality_results # <<>>
    \/ low_quality_results # <<>>
    \/ output_file # NotWritten
    \/ report # NotWritten

\* C32: in filter_data the stages are strictly sequential: the judgment
\* service is invoked, and a batch exists, only after the rule stage has
\* produced a verdict for every loaded record; the service is only sent
\* records that passed the rule stage; merge, save and report start only
\* after all batches have completed.
C32_StagesSequential ==
    /\ (service_log # <<>> \/ batches # <<>>) => RuleStageOver
    /\ \A m \in BatchMembers :
          /\ m.entry = data_entries[m.index + 1]
          /\ validate_entry(m.entry).is_valid
          /\ rule_results[m.index + 1].is_kept = JTrue
    /\ \A e \in PromptRecords : validate_entry(e).is_valid
    /\ MergeStarted => (RuleStageOver /\ AIStageOver)

\* C32's case: a run of two batches and a record the rules rejected, at
\* the start of the save
C32_Witness ==
    /\ pc = "save"
    /\ Len(batches) = 2
    /\ Len(service_log) = 2
    /\ \E i \in 1..Len(rule_results) : rule_results[i].is_kept = JFalse
    /\ AIStageOver

-----------------------------------------------------------------------------
(* The stage tag and the statistics of a final result *)

\* the final results that carry this index
FinalOf(index) == { r \in FinalResults : r.index = index }

\* C33: each record's single final FilterResult carries the stage tag of
\* the later stage it reached, 'rule_filter' exactly when the rule stage
\* rejected it and 'ai_evaluation' otherwise; its stats are the FilterStats
\* the rule stage computed for that index; merge_results creates new
\* results for the AI stage and leaves the rule-stage result list and its
\* elements as they were.
C33_StageTagAndStats ==
    pc = "return" =>
        /\ ~result.raised
        /\ \A i \in 1..Len(args.data_entries) :
              LET rule == args.rule_results[i]
              IN  /\ CountIndex(result.high, i - 1) + CountIndex(result.low, i - 1) = 1
                  /\ \A r \in FinalOf(i - 1) :
                        /\ r.stage \in {"rule_filter", "ai_evaluation"}
                        /\ r.stage = "rule_filter" <=> ~Truthy(rule.is_kept)
                        /\ r.stats = validate_entry(args.data_entries[i]).stats
                        /\ r.stats = rule.stats
                        /\ ~Truthy(rule.is_kept) => r = rule
                        /\ Truthy(rule.is_kept) => r # rule
                  /\ rule = RuleResult(i - 1, args.data_entries[i])
                  /\ rule.stage = "rule_filter"

\* C33's case: a record the rules rejected and one the AI stage judged,
\* whose statistics are not the empty ones
C33_Witness ==
    /\ pc = "return"
    /\ Len(args.data_entries) = 2
    /\ ~Truthy(args.rule_results[1].is_kept)
    /\ Truthy(args.rule_results[2].is_kept)
    /\ 1 \in DOMAIN args.ai_evaluations
    /\ Len(result.high) = 1
    /\ result.high[1].stage = "ai_evaluation"
    /\ result.high[1].stats # ZeroStats
    /\ result.low[1] = args.rule_results[1]

-----------------------------------------------------------------------------
(* load_data on its own, line by line *)

\* a line at which line 226 raises an exception that is no JSONDecodeError:
\* an integer literal beyond the interpreter's digit limit (ValueError) or
\* nesting beyond its recursion limit (RecursionError)
UnparsedLine == Entry("parse_raises", NoText, NoText, {})

\* the lines of the file: two records, a line json.loads rejects and a line
\* at which it raises another exception
LoadLineSamples == { GoodEntry, WeatherEntry, MalformedLine, UnparsedLine }

\* sample_size: None (0), and the sizes 1 and 2
SampleSizes == {0, 1, 2}

\* line 222, and line_number before the first line
Loading(entries, line_number) == [data_entries |-> entries, line_number |-> line_number]

InitLoad ==
    /\ pc = "call"
    /\ args \in [lines : SeqsUpTo(LoadLineSamples, MaxLines), sample_size : SampleSizes]
    /\ result = <<>>
    /\ RunNotStarted

\* lines 222-223
OpenFile ==
    /\ pc = "call"
    /\ result' = Loading(<<>>, 0)
    /\ pc' = "next_line"
    /\ UNCHANGED <<args, runVars>>

\* the line the loop of line 224 reads next
NextLine == args.lines[result.line_number + 1]

\* line 224: the file has another line
HasNextLine == pc = "next_line" /\ result.line_number < Len(args.lines)

\* lines 226 and 234-236: JSONDecodeError, the line is skipped
SkipLine ==
    /\ HasNextLine
    /\ NextLine.shape = "malformed_json"
    /\ result' = Loading(result.data_entries, result.line_number + 1)
    /\ UNCHANGED <<pc, args, runVars>>

\* line 226 raises an exception that line 234 does not catch
ParseRaises ==
    /\ HasNextLine
    /\ NextLine.shape = "parse_raises"
    /\ result' = Loading(result.data_entries, result.line_number + 1)
    /\ pc' = "raised"
    /\ UNCHANGED <<args, runVars>>

\* lines 226-232: the entry is appended, and the loop is left when the
\* sample is full
AppendLine ==
    /\ HasNextLine
    /\ NextLine.shape \notin {"malformed_json", "parse_raises"}
    /\ LET loaded == Append(result.data_entries, NextLine)
       IN  /\ result' = Loading(loaded, result.line_number + 1)
           /\ pc' = IF args.sample_size # 0 /\ Len(loaded) >= args.sample_size
                    THEN "return" ELSE "next_line"
    /\ UNCHANGED <<args, runVars>>

\* line 224 at the end of the file, lines 238-239
EndOfFile ==
    /\ pc = "next_line"
    /\ result.line_number = Len(args.lines)
    /\ pc' = "return"
    /\ UNCHANGED <<args, result, runVars>>

NextLoad ==
    \/ OpenFile
    \/ SkipLine
    \/ ParseRaises
    \/ AppendLine
    \/ EndOfFile

SpecLoad == InitLoad /\ [][NextLoad]_vars

-----------------------------------------------------------------------------
(* Claims about load_data *)

\* the lines that json.loads turns into a document, in file order
Parsed(lines) ==
    SelectIdx(lines, [i \in 1..Len(lines) |->
                         lines[i].shape \notin {"malformed_json", "parse_raises"}], 1)

\* how many records load_data is to return
Retained(lines, sample_size) ==
    IF sample_size = 0 THEN Len(Parsed(lines))
    ELSE Min(sample_size, Len(Parsed(lines)))

\* the number of lines read when the k-th parsed line has been read
LineOfParsed(lines, k) ==
    CHOOSE n \in 0..Len(lines) :
        /\ Len(Parsed(SubSeq(lines, 1, n))) = k
        /\ n > 0 => Len(Parsed(SubSeq(lines, 1, n - 1))) = k - 1

\* the call has ended, with a return or an exception
LoadEnded == pc \in {"return", "raised"}

\* load_data returned the first Retained parsed lines in file order, an
\* entry's index being its position among them, and with a full sample it
\* read no line after the one that filled it
ReturnedParsedLines ==
    LET parsed == Parsed(args.lines)
        n == Retained(args.lines, args.sample_size)
    IN  /\ pc = "return"
        /\ result.data_entries = SubSeq(parsed, 1, n)
        /\ \A i \in 1..Len(result.data_entries) : result.data_entries[i] = parsed[i]
        /\ result.line_number =
              IF args.sample_size # 0 /\ Len(parsed) >= args.sample_size
              THEN LineOfParsed(args.lines, args.sample_size)
              ELSE Len(args.lines)

\* C34: load_data returns the successfully parsed lines in file order with
\* the lines that fail to parse skipped, so that a record's index is its
\* position among the successfully parsed lines; with a sample size s it
\* returns the first min(s, number of parseable lines) parsed records and
\* reads no further.
C34_ParsedLinesInFileOrder == LoadEnded => ReturnedParsedLines

\* the same for a file in which every line that fails to parse fails with
\* a JSONDecodeError
C34_DecodeErrorsSkipped ==
    (LoadEnded /\ \A i \in 1..Len(args.lines) : args.lines[i].shape # "parse_raises")
        => /\ ReturnedParsedLines
           /\ result.data_entries = load_data(args.lines, args.sample_size)

-----------------------------------------------------------------------------
(* Who writes the mapping and the count *)

\* a step of a pool thread: it starts evaluate_batch for a queued batch, or
\* the call it runs returns or raises
PoolThreadStep ==
    \E w \in DOMAIN worker :
        \/ WorkerStart(w)
        \/ \E reply \in RunReplies : ServiceReply(w, reply)
        \/ EvaluatorRaises(w)

\* a step of the thread that runs apply_ai_evaluation, inside its loop over
\* the completed futures
CollectingStep ==
    \/ \E b \in DOMAIN future : TakeFuture(b) \/ CollectRaised(b)
    \/ AcquireLock
    \/ UpdateProgress
    \/ ReleaseLock

\* what the collecting loop shares with nobody
LoopState == <<all_evaluations, processed_count, collected, collecting, processing_lock>>

\* C35: during apply_ai_evaluation the evaluation mapping and the processed
\* count are written only by the one thread that iterates the completed
\* futures; a pool thread running evaluate_batch writes neither, whatever
\* the interleaving, so no step of a pool thread falls together with a
\* write: a write is a step of the loop, which is at one position at a
\* time, and it leaves the pool threads and the futures as they are.
C35_SingleWriter ==
    /\ [][PoolThreadStep => UNCHANGED LoopState]_vars
    /\ [][(WritesMapping \/ UpdatesCount) =>
             /\ CollectingStep
             /\ ~PoolThreadStep
             /\ UNCHANGED <<worker, future, batches>>]_vars
    /\ [](collecting # NotCollecting =>
             /\ pc = "ai_evaluation"
             /\ collecting.batch \in DOMAIN future
             /\ collecting.batch \notin collected)

\* C35's case: the loop has written the pairs of the first batch into the
\* mapping and not yet counted them, and a pool thread is running the
\* second batch
C35_Witness ==
    /\ pc = "ai_evaluation"
    /\ collecting = At(0, "lock")
    /\ processed_count = 0
    /\ 0 \in DOMAIN all_evaluations
    /\ future[0].state = "finished"
    /\ \E w \in DOMAIN worker : worker[w] = 1 /\ future[1].state = "running"

-----------------------------------------------------------------------------
(* The rule stage's acceptance and the evaluator's extraction *)

\* records of every shape: the lines of a run and the records of the
\* evaluator's samples
RecordShapes == LineSamples \cup BatchEntrySamples

\* the reasons of the two defaults: line 149 and lines 371-373
DefaultReasons == {ReasonFormatError, ReasonNotEvaluated}

\* C36: in a full run of filter_data every record that validate_entry
\* accepts is extractable by evaluate_batch, which reads the same two text
\* fields; so the batch evaluator skips no rule-passed record, every batch
\* that returns carries one pair per member, and neither the format-error
\* fallback nor merge_results' not-evaluated default is applied to any
\* record.
C36_AcceptedIsExtractable ==
    /\ \A e \in RecordShapes : validate_entry(e).is_valid => Extractable(e)
    /\ \A i \in 1..Len(rule_results) :
          Truthy(rule_results[i].is_kept) => Extractable(data_entries[i])
    /\ \A b \in 1..Len(batches) : ValidEntries(batches[b]) = batches[b]
    /\ \A b \in DOMAIN future :
          future[b].state = "finished" =>
              /\ Len(future[b].results) = Len(batches[b + 1])
              /\ \A k \in 1..Len(future[b].results) :
                    /\ future[b].results[k].index = batches[b + 1][k].index
                    /\ future[b].results[k].evaluation.reason \notin DefaultReasons
    /\ \A index \in DOMAIN all_evaluations :
          all_evaluations[index].reason \notin DefaultReasons
    /\ MergeStarted =>
          \A r \in Range(high_quality_results) \cup Range(low_quality_results) :
              /\ r.reason \notin DefaultReasons
              /\ r.stage = "ai_evaluation" => r.index \in DOMAIN all_evaluations

\* C36's case: a file with a record the rules accept with one issue (no
\* question marker), an accepted record without issues and a record of one
\* turn; the two accepted ones were evaluated and merged
C36_Witness ==
    /\ pc = "save"
    /\ \E i, j, k \in 1..Len(data_entries) :
          /\ data_entries[i] = NoMarkEntry
          /\ data_entries[j] = GoodEntry
          /\ data_entries[k] = FewTurnsEntry
    /\ Len(passed_entries) = 2
    /\ DOMAIN all_evaluations = { passed_entries[1].index, passed_entries[2].index }
    /\ Len(high_quality_results) + Len(low_quality_results) = 3

=============================================================================
